---------------------------- MODULE Spec2Model ----------------------------
(***************************************************************************)
(* A model of the realms-tx-tracker pipeline: the token-bucket rate        *)
(* limiter (utils/rate-limiter), the retry wrapper and the batch fetcher   *)
(* (services/solana), the signature scan and merge, and the classifier.    *)
(*                                                                         *)
(* Time is in milliseconds.  The limiter's token count is a JavaScript     *)
(* number (a fraction); it is kept here in thousandths of a token, so that *)
(* refillRate = rps / 1000 tokens per ms is exactly rps units per ms and   *)
(* every quantity is an integer.  Floating-point rounding is not modelled. *)
(***************************************************************************)
EXTENDS Integers, Sequences, FiniteSets, TLC

(***************************************************************************)
(* Bounds of the model.                                                    *)
(***************************************************************************)
\* the clock advances in steps of TickMs up to MaxTime
TickMs == 1000
MaxTime == 8000
\* the rps values given to init(rps): 1..MaxRps
MaxRps == 1
\* fetchTransactionsBatch: lists of up to MaxSigs signatures, limit 1..MaxC
MaxSigs == 4
MaxC == 2
\* the signature scan: histories of up to MaxHist entries with block times
\* 0..MaxBlockTime, served in pages of PageLimit entries (the program's
\* MAX_SIGNATURES_PER_FETCH is 1000)
MaxHist == 4
MaxBlockTime == 3
PageLimit == 2
\* the merge: up to MaxMergeInput records in the argument lists
MaxMergeInput == 4
\* the classifier: transactions of up to MaxTxItems log lines, top-level
\* instructions and inner instructions together
MaxTxItems == 3
\* parseTransaction: up to MaxKeys account keys, balances and fees of up to
\* MaxLamports lamports
MaxKeys == 2
MaxLamports == 2
\* calculateResults: up to MaxTracked tracked transactions
MaxTracked == 3
\* the run: up to MaxVoteRecords vote record accounts of the membership record
MaxVoteRecords == 2
MaxAttempt == 5
MaxWaiters == 3
MaxDiscriminator == 30

(***************************************************************************)
(* Program constants.                                                      *)
(***************************************************************************)
\* rate-limiter.ts: refillRate = rps / 1000
MsPerSecond == 1000
\* constants.ts RETRY_CONFIG
maxRetries == 3
baseDelayMs == 1000
maxDelayMs == 10000

None == "none"

Max(a, b) == IF a >= b THEN a ELSE b
Min(a, b) == IF a <= b THEN a ELSE b
CeilDiv(a, b) == (a + b - 1) \div b
RECURSIVE Pow2(_)
Pow2(n) == IF n = 0 THEN 1 ELSE 2 * Pow2(n - 1)

(***************************************************************************)
(* RateLimiter (utils/rate-limiter).  A limiter value is a record of the   *)
(* class's fields; tokens and maxTokens are in 1/1000 token.               *)
(***************************************************************************)
\* constructor()
NewRateLimiter(t) ==
  [tokens |-> 0, maxTokens |-> 0, refillRate |-> 0, lastRefill |-> t,
   initialized |-> FALSE]

\* init(rps)
init(rps, t) ==
  [tokens |-> rps * MsPerSecond, maxTokens |-> rps * MsPerSecond,
   refillRate |-> rps, lastRefill |-> t, initialized |-> TRUE]

\* mutant: the refill is not capped at maxTokens
refill_Uncapped(L, t) ==
  LET elapsed == t - L.lastRefill
      tokensToAdd == elapsed * L.refillRate
  IN [L EXCEPT !.tokens = L.tokens + tokensToAdd, !.lastRefill = t]

\* refill(): tokens = min(maxTokens, tokens + elapsed * refillRate)
refill(L, t) ==
  LET elapsed == t - L.lastRefill
      tokensToAdd == elapsed * L.refillRate
  IN [L EXCEPT !.tokens = Min(L.maxTokens, L.tokens + tokensToAdd),
               !.lastRefill = t]

\* mutant: the missing tokens are not divided by the refill rate per
\* millisecond (rps / 1000) but by the rate per microsecond
getWaitTime_WrongUnit(L, t) ==
  LET R == refill(L, t)
  IN [lim |-> R,
      wait |-> IF R.tokens >= MsPerSecond THEN 0
               ELSE CeilDiv((MsPerSecond - R.tokens) * MsPerSecond, R.refillRate)]

\* getWaitTime(): refills, then 0 when a whole token is there, else the
\* time to one token.  Returns the limiter after the refill and the wait.
getWaitTime(L, t) ==
  LET R == refill(L, t)
  IN [lim |-> R,
      wait |-> IF R.tokens >= MsPerSecond THEN 0
               ELSE CeilDiv(MsPerSecond - R.tokens, R.refillRate)]

\* "this.tokens -= 1"
Consume(L) == [L EXCEPT !.tokens = L.tokens - MsPerSecond]

\* mutant: a limiter that is not initialized is debited all the same
throttleBegin_DebitUninitialized(L, t) ==
  IF ~L.initialized THEN [lim |-> Consume(L), wait |-> 0, debited |-> TRUE]
  ELSE LET W == getWaitTime(L, t)
       IN IF W.wait > 0 THEN [lim |-> W.lim, wait |-> W.wait, debited |-> FALSE]
          ELSE [lim |-> Consume(W.lim), wait |-> 0, debited |-> TRUE]

\* throttle() up to its first suspension: returns at once when the limiter
\* is not initialized; debits at once when no wait is needed; otherwise
\* the caller sleeps for `wait` and the debit is left to throttleResume.
throttleBegin(L, t) ==
  IF ~L.initialized THEN [lim |-> L, wait |-> 0, debited |-> FALSE]
  ELSE LET W == getWaitTime(L, t)
       IN IF W.wait > 0 THEN [lim |-> W.lim, wait |-> W.wait, debited |-> FALSE]
          ELSE [lim |-> Consume(W.lim), wait |-> 0, debited |-> TRUE]

\* throttle() after "await this.sleep(waitTime)": refill, then debit
throttleResume(L, t) == Consume(refill(L, t))

(***************************************************************************)
(* RetryingCaller (services/solana withRetry).                             *)
(***************************************************************************)
\* mutant: the delay is not capped at maxDelayMs
calculateBackoff_Uncapped(attempt) ==
  baseDelayMs * Pow2(attempt)

\* calculateBackoff(attempt)
calculateBackoff(attempt) ==
  Min(baseDelayMs * Pow2(attempt), maxDelayMs)

\* mutant: the loop runs one pass too many
LoopContinues_OneMore(attempt) == attempt <= maxRetries + 1

\* the for loop's test, "attempt <= RETRY_CONFIG.maxRetries"
LoopContinues(attempt) == attempt <= maxRetries

\* the catch block's test, "attempt < RETRY_CONFIG.maxRetries": the failed
\* attempt is followed by a sleep
ShouldSleep(attempt) == attempt < maxRetries


(***************************************************************************)
(* A JavaScript Map: a sequence of <<key, value>> entries in the order of  *)
(* first insertion; set() on a present key replaces the value in place.    *)
(***************************************************************************)
MapHas(m, k) == \E n \in 1..Len(m) : m[n][1] = k
MapGet(m, k) == m[CHOOSE n \in 1..Len(m) : m[n][1] = k][2]
MapSet(m, k, v) ==
  IF MapHas(m, k)
  THEN [n \in 1..Len(m) |-> IF m[n][1] = k THEN <<k, v>> ELSE m[n]]
  ELSE Append(m, <<k, v>>)
MapKeys(m) == {m[n][1] : n \in 1..Len(m)}

(***************************************************************************)
(* State of the asynchronous part: the clock, the global limiter, the      *)
(* pending timers in creation order, and one fetchTransactionsBatch call   *)
(* with a withRetry coroutine for every position of its signature list.    *)
(***************************************************************************)
VARIABLES
  now,              \* Date.now(), ms
  limiter,          \* the rateLimiter singleton
  timers,           \* coroutines sleeping in setTimeout, in creation order
  phase,            \* "loaded" | "connected" | "running" | "returned" | "thrown"
  signatures,       \* fetchTransactionsBatch's argument
  concurrencyLimit, \* fetchTransactionsBatch's argument
  i,                \* the wave loop's index
  results,          \* the Map being built
  fetch             \* per position: the coroutine of batch.map's callback

asyncVars ==
  <<now, limiter, timers, phase, signatures, concurrencyLimit, i, results, fetch>>

\* State of one fetchSignaturesForAddress call.
VARIABLES
  history,          \* what the ledger holds for the address, newest first
  startTimestamp,
  endTimestamp,
  allSignatures,
  beforeSignature,  \* 0 for undefined
  reachedStartDate,
  scanPc,           \* "loop" | "returned" | "thrown"
  requests          \* the "before" cursor of every page request made so far

scanVars ==
  <<history, startTimestamp, endTimestamp, allSignatures, beforeSignature,
    reachedStartDate, scanPc, requests>>

\* State of one mergeSignatures call.
VARIABLES
  mergeInput,       \* the records of the argument lists visited so far
  signatureMap,
  merged,           \* the returned list
  mergePc           \* "loop" | "returned"

mergeVars == <<mergeInput, signatureMap, merged, mergePc>>

\* State of one determineTransactionType call.
VARIABLES
  tx,               \* the ParsedTransactionWithMeta given
  txType,           \* the TransactionType returned, or NullType
  classPc           \* "call" | "returned"

classVars == <<tx, txType, classPc>>

\* State of one parseTransaction call and of one calculateRentCost call on
\* the same transaction.
VARIABLES
  parseTx,          \* the transaction given (null, or with its meta and keys)
  tracked,          \* the TrackedTransaction returned, or NoTracked
  parsePc,          \* "call" | "returned"
  rentCost,         \* what calculateRentCost(tx, walletAddress) returned
  rentPc            \* "call" | "returned"

parseVars == <<parseTx, tracked, parsePc, rentCost, rentPc>>

\* State of one calculateResults call.
VARIABLES
  transactions,     \* the TrackedTransaction[] given
  trackingResults,  \* the TrackingResults returned
  resultsPc         \* "call" | "returned"

resultsVars == <<transactions, trackingResults, resultsPc>>

\* State of one run of main, through the merge of the signature sources.
VARIABLES
  mainPc,               \* the statement main is at
  rpcCalls,             \* the calls made on the connection, in order
  torExists,            \* what tokenOwnerRecordExists returned
  candidates,           \* the accounts getProgramAccounts returned
  vrHistory,            \* for each of them, the entries of its history in the window
  voteRecords,          \* the vote records kept by the timestamp filter
  vr,                   \* the index of the loop over vote records
  torSignatures,        \* source 1
  voteRecordSignatures, \* source 2
  walletSignatures,     \* source 3
  runSignatures,        \* mergeSignatures(source 1, source 2, source 3)
  warnings,             \* the addresses logWarning reported as failed
  exitReason            \* why the run went to process.exit(1), "" if it did not

mainVars ==
  <<mainPc, rpcCalls, torExists, candidates, vrHistory, voteRecords, vr, torSignatures,
    voteRecordSignatures, walletSignatures, runSignatures, warnings, exitReason>>

(***************************************************************************)
(* State of main from the merged signature list to the aggregator.         *)
(***************************************************************************)
VARIABLES
  mergedSignatures,     \* "signatures": what mergeSignatures returned
  details,              \* "transactions": the Map fetchTransactionsBatch returned
  trackedTransactions,  \* the list given to calculateResults
  processedCount,       \* the entries of the Map the loop has visited
  reportPc              \* the statement main is at

reportVars ==
  <<mergedSignatures, details, trackedTransactions, processedCount, reportPc>>

(***************************************************************************)
(* State of the classification of one governance instruction: the          *)
(* instruction as the program built it, and what each tier makes of it.    *)
(***************************************************************************)
VARIABLES
  ixProgram,        \* the program id of the instruction
  ixPayload,        \* the bytes of the instruction's data
  ixEncoding,       \* how the data string encodes them: "base64" | "base58"
  ixType,           \* what determineTransactionType returned
  ixLogType,        \* what mapLogInstructionToType returned for its name
  ixTableType,      \* what getTransactionTypeFromDiscriminator returned for its index
  ixShapeType,      \* what the parsed-shape tier returned for its camelCase key
  ixPc              \* "call" | "classified" | "tiers"

ixVars ==
  <<ixProgram, ixPayload, ixEncoding, ixType, ixLogType, ixTableType, ixShapeType, ixPc>>

vars ==
  <<asyncVars, scanVars, mergeVars, classVars, parseVars, resultsVars, mainVars,
    reportVars, ixVars>>

\* what the steps of one part leave alone: the state of the other parts
asyncOnly ==
  UNCHANGED <<scanVars, mergeVars, classVars, parseVars, resultsVars, mainVars, reportVars,
              ixVars>>
scanOnly ==
  UNCHANGED <<asyncVars, mergeVars, classVars, parseVars, resultsVars, mainVars, reportVars,
              ixVars>>
mergeOnly ==
  UNCHANGED <<asyncVars, scanVars, classVars, parseVars, resultsVars, mainVars, reportVars,
              ixVars>>
classOnly ==
  UNCHANGED <<asyncVars, scanVars, mergeVars, parseVars, resultsVars, mainVars, reportVars,
              ixVars>>
parseOnly ==
  UNCHANGED <<asyncVars, scanVars, mergeVars, classVars, resultsVars, mainVars, reportVars,
              ixVars>>
resultsOnly ==
  UNCHANGED <<asyncVars, scanVars, mergeVars, classVars, parseVars, mainVars, reportVars,
              ixVars>>
mainOnly ==
  UNCHANGED <<asyncVars, scanVars, mergeVars, classVars, parseVars, resultsVars,
              reportVars, ixVars>>
reportOnly ==
  UNCHANGED <<asyncVars, scanVars, mergeVars, classVars, parseVars, resultsVars,
              mainVars, ixVars>>
ixOnly ==
  UNCHANGED <<asyncVars, scanVars, mergeVars, classVars, parseVars, resultsVars,
              mainVars, reportVars>>

SigNames == {"s1", "s2", "s3", "s4"}
SigName(n) == CASE n = 1 -> "s1" [] n = 2 -> "s2" [] n = 3 -> "s3" [] OTHER -> "s4"
\* the error of a failed RPC; withRetry never looks into it, so the model
\* gives every failure a message of its own: the signature and the attempt
RpcError(sig, attempt) == <<"rpc error", sig, attempt>>
NoMessage == <<>>
Null == <<"null">>
Undefined == <<"undefined">>
\* what getParsedTransaction answers for a signature: its record, or null
\* when the ledger no longer holds it (here: "s2")
TxOf(sig) == <<"tx", sig>>
Ledger(sig) == IF sig = "s2" THEN Null ELSE TxOf(sig)

\* the lists given to fetchTransactionsBatch: n distinct signatures, or the
\* same with the last one repeating the first
SigLists ==
  {[k \in 1..n |-> SigName(k)] : n \in 0..MaxSigs} \cup
  {[k \in 1..n |-> IF k = n THEN "s1" ELSE SigName(k)] : n \in 2..MaxSigs}

\* fetchTransaction's operationName; the model's signatures are shorter
\* than 8 characters, so slice(0, 8) keeps them whole
OperationName(sig) == <<"getTransaction", sig>>

NoError == [name |-> <<>>, retries |-> 0, message |-> NoMessage]

\* a coroutine that has not started
NewFetch ==
  [pc |-> "pending", attempt |-> 0, lastError |-> NoMessage, wakeAt |-> 0,
   delay |-> 0, value |-> Undefined, thrown |-> NoError,
   acquires |-> 0, calls |-> 0]

\* a coroutine that has returned v or thrown err: its locals (attempt,
\* lastError, the timer) and the counts of what it did end with it
Settled(f, how, v, err) ==
  [NewFetch EXCEPT !.pc = how, !.value = v, !.thrown = err]

\* "new Error(`${operationName} failed after ${maxRetries} retries: ${lastError?.message}`)"
RetryError(operationName, lastError) ==
  [name |-> operationName, retries |-> maxRetries, message |-> lastError]

\* mutant: the first error is kept, later ones are dropped
CatchError_KeepFirst(old, error) == IF old = NoMessage THEN error ELSE old

\* "lastError = error as Error"
CatchError(old, error) == error

\* mutant: only the first attempt is throttled, a retry calls at once
BeginAttempt_RetryUnthrottled(S, k, t) ==
  LET r == throttleBegin(S.lim, t)
      f == S.fetch[k]
  IN IF f.attempt > 0
     THEN [S EXCEPT !.fetch[k] = [f EXCEPT !.pc = "op", !.calls = f.calls + 1]]
     ELSE IF r.wait = 0
     THEN [S EXCEPT !.lim = r.lim,
                    !.fetch[k] = [f EXCEPT !.pc = "op",
                                           !.acquires = f.acquires + 1,
                                           !.calls = f.calls + 1]]
     ELSE [S EXCEPT !.lim = r.lim,
                    !.timers = Append(S.timers, k),
                    !.fetch[k] = [f EXCEPT !.pc = "throttle",
                                           !.wakeAt = t + r.wait]]

\* one pass of withRetry's loop body up to its first suspension:
\* "await throttle(); return await operation()"
BeginAttempt(S, k, t) ==
  LET r == throttleBegin(S.lim, t)
      f == S.fetch[k]
  IN IF r.wait = 0
     THEN [S EXCEPT !.lim = r.lim,
                    !.fetch[k] = [f EXCEPT !.pc = "op",
                                           !.acquires = f.acquires + 1,
                                           !.calls = f.calls + 1]]
     ELSE [S EXCEPT !.lim = r.lim,
                    !.timers = Append(S.timers, k),
                    !.fetch[k] = [f EXCEPT !.pc = "throttle",
                                           !.wakeAt = t + r.wait]]

\* the loop of withRetry after "attempt++": another pass, or the throw
\* that follows the loop
LoopPass(S, k, sig, t) ==
  IF LoopContinues(S.fetch[k].attempt)
  THEN BeginAttempt(S, k, t)
  ELSE [S EXCEPT !.fetch[k] =
          Settled(S.fetch[k], "rejected", Undefined,
                  RetryError(OperationName(sig), S.fetch[k].lastError))]

\* mutant: the slice takes one signature too many
BatchLast_OneMore(sigs, idx, c) == Min(idx + c + 1, Len(sigs))

\* "signatures.slice(i, i + concurrencyLimit)", as positions of the list
BatchLast(sigs, idx, c) == Min(idx + c, Len(sigs))
Batch(sigs, idx, c) == (idx + 1)..BatchLast(sigs, idx, c)

\* "batch.map(async (sig) => ...)": the callbacks start in list order, each
\* entering withRetry's loop with attempt = 0
RECURSIVE StartBatch(_, _, _, _)
StartBatch(S, k, last, t) ==
  IF k > last THEN S
  ELSE StartBatch(BeginAttempt(S, k, t), k + 1, last, t)

\* mutant: a signature without a transaction gets no entry
RECURSIVE SetResults_SkipNull(_, _, _, _, _)
SetResults_SkipNull(m, sigs, F, k, last) ==
  IF k > last THEN m
  ELSE SetResults_SkipNull(IF F[k].value = Null THEN m ELSE MapSet(m, sigs[k], F[k].value),
                           sigs, F, k + 1, last)

\* "for (const result of batchResults) results.set(...)"
RECURSIVE SetResults(_, _, _, _, _)
SetResults(m, sigs, F, k, last) ==
  IF k > last THEN m
  ELSE SetResults(MapSet(m, sigs[k], F[k].value), sigs, F, k + 1, last)

\* the for loop of fetchTransactionsBatch from its head
RECURSIVE WaveLoop(_, _, _, _)
WaveLoop(S, sigs, c, t) ==
  IF S.i < Len(sigs)
  THEN StartBatch(S, S.i + 1, BatchLast(sigs, S.i, c), t)
  ELSE [S EXCEPT !.phase = "returned"]

\* mutant: the wave is left as soon as one of its callbacks has resolved
AwaitAll_AnyResolved(S, sigs, c, t) ==
  IF S.phase # "running" THEN S
  ELSE LET W == Batch(sigs, S.i, c)
       IN IF \E k \in W : S.fetch[k].pc = "rejected"
          THEN [S EXCEPT !.phase = "thrown"]
          ELSE IF \E k \in W : S.fetch[k].pc = "resolved"
          THEN WaveLoop([S EXCEPT
                           !.results = SetResults(S.results, sigs, S.fetch,
                                                  S.i + 1, BatchLast(sigs, S.i, c)),
                           !.i = S.i + c],
                        sigs, c, t)
          ELSE S

\* Promise.all over the wave, after a callback has settled: it rejects with
\* the first rejection, and resolves when every callback has resolved
AwaitAll(S, sigs, c, t) ==
  IF S.phase # "running" THEN S
  ELSE LET W == Batch(sigs, S.i, c)
       IN IF \E k \in W : S.fetch[k].pc = "rejected"
          THEN [S EXCEPT !.phase = "thrown"]
          ELSE IF \A k \in W : S.fetch[k].pc = "resolved"
          THEN WaveLoop([S EXCEPT
                           !.results = SetResults(S.results, sigs, S.fetch,
                                                  S.i + 1, BatchLast(sigs, S.i, c)),
                           !.i = S.i + c],
                        sigs, c, t)
          ELSE S

Cur == [lim |-> limiter, timers |-> timers, phase |-> phase, i |-> i,
        results |-> results, fetch |-> fetch]

Becomes(S) ==
  /\ limiter' = S.lim
  /\ timers' = S.timers
  /\ phase' = S.phase
  /\ i' = S.i
  /\ results' = S.results
  /\ fetch' = S.fetch

AsyncInit ==
  /\ now = 0
  /\ limiter = NewRateLimiter(0)
  /\ timers = <<>>
  /\ phase = "loaded"
  /\ signatures = <<>>
  /\ concurrencyLimit = 0
  /\ i = 0
  /\ results = <<>>
  /\ fetch = <<>>

\* the rps argument of getConnection; 0 stands for undefined (loadConfig
\* admits only positive integers)
RpsArgs == 0..MaxRps

\* getConnection(rpcUrl, rps)
GetConnection(rps) ==
  /\ asyncOnly
  /\ phase = "loaded"
  /\ limiter' = IF rps # 0 THEN init(rps, now) ELSE limiter
  /\ phase' = "connected"
  /\ UNCHANGED <<now, timers, signatures, concurrencyLimit, i, results, fetch>>

\* the call of fetchTransactionsBatch(conn, signatures, concurrencyLimit)
FetchTransactionsBatch(sigs, c) ==
  /\ asyncOnly
  /\ phase = "connected"
  /\ signatures' = sigs
  /\ concurrencyLimit' = c
  /\ Becomes(WaveLoop([Cur EXCEPT !.phase = "running", !.i = 0,
                                  !.results = <<>>,
                                  !.fetch = [k \in 1..Len(sigs) |-> NewFetch]],
                      sigs, c, now))
  /\ UNCHANGED now

Removed(q, k) == SelectSeq(q, LAMBDA x : x # k)
Position(q, k) == CHOOSE n \in 1..Len(q) : q[n] = k

\* the timer of k is the next to fire: it is due, and every other pending
\* timer is due later or was created later
TimerFires(k) ==
  /\ \E n \in 1..Len(timers) : timers[n] = k
  /\ fetch[k].wakeAt <= now
  /\ \A n \in 1..Len(timers) :
       LET j == timers[n]
       IN j # k => \/ fetch[j].wakeAt > fetch[k].wakeAt
                   \/ /\ fetch[j].wakeAt = fetch[k].wakeAt
                      /\ n > Position(timers, k)

\* throttle() resumes after its sleep, debits, and withRetry calls operation()
ThrottleWake(k) ==
  /\ asyncOnly
  /\ k \in DOMAIN fetch
  /\ fetch[k].pc = "throttle"
  /\ TimerFires(k)
  /\ limiter' = throttleResume(limiter, now)
  /\ timers' = Removed(timers, k)
  /\ fetch' = [fetch EXCEPT ![k].pc = "op",
                            ![k].acquires = @ + 1,
                            ![k].calls = @ + 1]
  /\ UNCHANGED <<now, phase, signatures, concurrencyLimit, i, results>>

\* the RPC answers: withRetry returns the value, the callback resolves
OpSucceed(k) ==
  /\ asyncOnly
  /\ k \in DOMAIN fetch
  /\ fetch[k].pc = "op"
  /\ Becomes(AwaitAll([Cur EXCEPT !.fetch[k] = Settled(fetch[k], "resolved",
                                                       Ledger(signatures[k]), NoError)],
                      signatures, concurrencyLimit, now))
  /\ UNCHANGED <<now, signatures, concurrencyLimit>>

\* the RPC fails: the catch block keeps the error and sleeps the backoff
\* when a retry is left; otherwise the loop goes on at once
OpFail(k) ==
  /\ asyncOnly
  /\ k \in DOMAIN fetch
  /\ fetch[k].pc = "op"
  /\ LET e == RpcError(signatures[k], fetch[k].attempt)
         f == [fetch[k] EXCEPT !.lastError = CatchError(fetch[k].lastError, e)]
     IN IF ShouldSleep(f.attempt)
        THEN Becomes([Cur EXCEPT
                        !.timers = Append(timers, k),
                        !.fetch[k] = [f EXCEPT !.pc = "backoff",
                                               !.delay = calculateBackoff(f.attempt),
                                               !.wakeAt = now + calculateBackoff(f.attempt)]])
        ELSE Becomes(AwaitAll(LoopPass([Cur EXCEPT
                                          !.fetch[k] = [f EXCEPT !.attempt = f.attempt + 1]],
                                       k, signatures[k], now),
                              signatures, concurrencyLimit, now))
  /\ UNCHANGED <<now, signatures, concurrencyLimit>>

\* the backoff sleep ends: attempt++, and the loop goes on
BackoffWake(k) ==
  /\ asyncOnly
  /\ k \in DOMAIN fetch
  /\ fetch[k].pc = "backoff"
  /\ TimerFires(k)
  /\ Becomes(AwaitAll(LoopPass([Cur EXCEPT !.timers = Removed(timers, k),
                                           !.fetch[k].attempt = @ + 1],
                               k, signatures[k], now),
                      signatures, concurrencyLimit, now))
  /\ UNCHANGED <<now, signatures, concurrencyLimit>>

\* time passes; a timer that is due fires before the clock moves on
Tick ==
  /\ asyncOnly
  /\ now + TickMs <= MaxTime
  /\ phase \in {"running", "thrown"}
  /\ \A n \in 1..Len(timers) : fetch[timers[n]].wakeAt > now
  /\ now' = now + TickMs
  /\ UNCHANGED <<limiter, timers, phase, signatures, concurrencyLimit, i, results, fetch>>

AsyncNext ==
  \/ \E rps \in RpsArgs : GetConnection(rps)
  \/ \E sigs \in SigLists, c \in 1..MaxC : FetchTransactionsBatch(sigs, c)
  \/ \E k \in 1..MaxSigs : ThrottleWake(k)
  \/ \E k \in 1..MaxSigs : OpSucceed(k)
  \/ \E k \in 1..MaxSigs : OpFail(k)
  \/ \E k \in 1..MaxSigs : BackoffWake(k)
  \/ Tick

(***************************************************************************)
(* SignatureDiscovery (services/solana fetchSignaturesForAddress).  The    *)
(* address's history is a list of ConfirmedSignatureInfo, newest first;    *)
(* the signature of the n-th entry is n.  The page request goes through    *)
(* withRetry, modelled above: here it either answers with the page or      *)
(* throws once its retries are exhausted.                                  *)
(***************************************************************************)
\* a missing blockTime (null or undefined)
NoTime == -1
BlockTimes == 0..MaxBlockTime

\* the entries an address history is made of: with a block time, errored
\* or not, or without a block time
SigInfos ==
  [blockTime : BlockTimes, err : BOOLEAN] \cup {[blockTime |-> NoTime, err |-> FALSE]}

\* newest first: the block times that are known never increase
NewestFirst(h) ==
  \A a, b \in 1..Len(h) :
    (a < b /\ h[a].blockTime # NoTime /\ h[b].blockTime # NoTime)
      => h[a].blockTime >= h[b].blockTime

Histories ==
  UNION {{h \in [1..n -> SigInfos] : NewestFirst(h)} : n \in 0..MaxHist}

\* an entry of the history with its signature
Signed(h, n) == [signature |-> n, blockTime |-> h[n].blockTime, err |-> h[n].err]

\* conn.getSignaturesForAddress(address, {before, limit}): the entries after
\* the cursor, at most `limit` of them
getSignaturesForAddress(h, before, limit) ==
  [n \in 1..Min(limit, Len(h) - before) |-> Signed(h, before + n)]

\* "!blockTime": null, undefined and 0 are all falsy
IsFalsy(blockTime) == blockTime = NoTime \/ blockTime = 0

\* mutant: an entry at the start of the window already stops the scan
OlderThanStart_Inclusive(blockTime, start) == blockTime <= start

\* "blockTime < startTimestamp"
OlderThanStart(blockTime, start) == blockTime < start

\* "blockTime > endTimestamp"
NewerThanEnd(blockTime, end) == blockTime > end

\* mutant: an entry newer than the window ends the scan of the page
RECURSIVE ScanPage_StopsAtNewer(_, _, _, _, _)
ScanPage_StopsAtNewer(page, k, acc, start, end) ==
  IF k > Len(page) THEN [all |-> acc, reached |-> FALSE]
  ELSE LET sig == page[k]
       IN IF IsFalsy(sig.blockTime)
          THEN ScanPage_StopsAtNewer(page, k + 1, acc, start, end)
          ELSE IF NewerThanEnd(sig.blockTime, end)
          THEN [all |-> acc, reached |-> FALSE]
          ELSE IF OlderThanStart(sig.blockTime, start)
          THEN [all |-> acc, reached |-> TRUE]
          ELSE IF ~sig.err
          THEN ScanPage_StopsAtNewer(page, k + 1, Append(acc, sig), start, end)
          ELSE ScanPage_StopsAtNewer(page, k + 1, acc, start, end)

\* the for loop over one page from entry k on: acc is allSignatures
RECURSIVE ScanPage(_, _, _, _, _)
ScanPage(page, k, acc, start, end) ==
  IF k > Len(page) THEN [all |-> acc, reached |-> FALSE]
  ELSE LET sig == page[k]
       IN IF IsFalsy(sig.blockTime) THEN ScanPage(page, k + 1, acc, start, end)
          ELSE IF NewerThanEnd(sig.blockTime, end)
          THEN ScanPage(page, k + 1, acc, start, end)
          ELSE IF OlderThanStart(sig.blockTime, start)
          THEN [all |-> acc, reached |-> TRUE]
          ELSE IF ~sig.err
          THEN ScanPage(page, k + 1, Append(acc, sig), start, end)
          ELSE ScanPage(page, k + 1, acc, start, end)

ScanIdle ==
  /\ history = <<>>
  /\ startTimestamp = 0
  /\ endTimestamp = 0
  /\ allSignatures = <<>>
  /\ beforeSignature = 0
  /\ reachedStartDate = FALSE
  /\ scanPc = "idle"
  /\ requests = <<>>

\* the windows loadConfig admits: 0 < start < end
Windows ==
  {w \in (1..MaxBlockTime) \X (1..MaxBlockTime) : w[1] < w[2]}

\* the call of fetchSignaturesForAddress(conn, address, start, end)
ScanInit ==
  /\ history \in Histories
  /\ \E w \in Windows : startTimestamp = w[1] /\ endTimestamp = w[2]
  /\ allSignatures = <<>>
  /\ beforeSignature = 0
  /\ reachedStartDate = FALSE
  /\ scanPc = "loop"
  /\ requests = <<>>

\* mutant: the cursor is the last signature that was kept
NextCursor_LastKept(page, all) ==
  IF Len(all) = 0 THEN 0 ELSE all[Len(all)].signature

\* "beforeSignature = signatures[signatures.length - 1].signature"
NextCursor(page, all) == page[Len(page)].signature

\* mutant: a full page is followed by another, whatever the page held
LoopsAgain_FullPage(page, reached) == ~(Len(page) < PageLimit)

\* the while loop goes round again: no break on a short page, and
\* "!reachedStartDate"
LoopsAgain(page, reached) == ~(Len(page) < PageLimit) /\ ~reached

\* one pass of the while loop whose page request is answered
FetchPage ==
  /\ scanOnly
  /\ scanPc = "loop"
  /\ LET page == getSignaturesForAddress(history, beforeSignature, PageLimit)
         scan == ScanPage(page, 1, allSignatures, startTimestamp, endTimestamp)
     IN /\ requests' = Append(requests, beforeSignature)
        /\ IF Len(page) = 0
           THEN /\ scanPc' = "returned"
                /\ UNCHANGED <<allSignatures, beforeSignature, reachedStartDate>>
           ELSE /\ allSignatures' = scan.all
                /\ reachedStartDate' = scan.reached
                /\ beforeSignature' = NextCursor(page, scan.all)
                /\ scanPc' = IF LoopsAgain(page, scan.reached)
                             THEN "loop" ELSE "returned"
  /\ UNCHANGED <<history, startTimestamp, endTimestamp>>

\* one pass of the while loop whose page request exhausts its retries
FetchPageFails ==
  /\ scanOnly
  /\ scanPc = "loop"
  /\ requests' = Append(requests, beforeSignature)
  /\ scanPc' = "thrown"
  /\ UNCHANGED <<history, startTimestamp, endTimestamp, allSignatures,
                 beforeSignature, reachedStartDate>>

ScanNext == FetchPage \/ FetchPageFails

(***************************************************************************)
(* mergeSignatures (index.ts).  The nested loops visit the records of the  *)
(* argument lists in the order of their concatenation; MergeVisit is one   *)
(* pass of the inner loop.  A record carries its signature, its blockTime  *)
(* and, to tell two records of one signature apart, its                    *)
(* confirmationStatus.                                                     *)
(***************************************************************************)
MergeRecords ==
  [signature : {"sa", "sb", "sc"},
   blockTime : {NoTime, 1, 2},
   confirmationStatus : {"confirmed", "finalized"}]

\* "a.blockTime || 0"
TimeOrZero(blockTime) == IF IsFalsy(blockTime) THEN 0 ELSE blockTime

\* mutant: the comparator sorts oldest first
CompareSignatures_Ascending(a, b) == TimeOrZero(a.blockTime) - TimeOrZero(b.blockTime)

\* the comparator given to sort: "timeB - timeA"
CompareSignatures(a, b) == TimeOrZero(b.blockTime) - TimeOrZero(a.blockTime)

\* mutant: a sort that is not stable: x goes before the elements it is
\* equal to
InsertSorted_BeforeEqual(sorted, x) ==
  LET later == {n \in 1..Len(sorted) : CompareSignatures(x, sorted[n]) <= 0}
  IN IF later = {} THEN Append(sorted, x)
     ELSE LET at == CHOOSE n \in later : \A m \in later : n <= m
          IN SubSeq(sorted, 1, at - 1) \o <<x>> \o SubSeq(sorted, at, Len(sorted))

\* Array.prototype.sort is stable: x goes before the first element that
\* the comparator orders after it, and behind everything else
InsertSorted(sorted, x) ==
  LET later == {n \in 1..Len(sorted) : CompareSignatures(x, sorted[n]) < 0}
  IN IF later = {} THEN Append(sorted, x)
     ELSE LET at == CHOOSE n \in later : \A m \in later : n <= m
          IN SubSeq(sorted, 1, at - 1) \o <<x>> \o SubSeq(sorted, at, Len(sorted))

RECURSIVE SortFrom(_, _, _)
SortFrom(list, k, sorted) ==
  IF k > Len(list) THEN sorted
  ELSE SortFrom(list, k + 1, InsertSorted(sorted, list[k]))

\* "Array.from(signatureMap.values()).sort(...)"
MapValues(m) == [n \in 1..Len(m) |-> m[n][2]]
SortedValues(m) == SortFrom(MapValues(m), 1, <<>>)

\* mutant: a later record of a signature replaces the one kept
KeepFirst_LastWins(m, sig) == MapSet(m, sig.signature, sig)

\* "if (!signatureMap.has(sig.signature)) signatureMap.set(sig.signature, sig)"
KeepFirst(m, sig) ==
  IF ~MapHas(m, sig.signature) THEN MapSet(m, sig.signature, sig) ELSE m

MergeIdle ==
  /\ mergeInput = <<>>
  /\ signatureMap = <<>>
  /\ merged = <<>>
  /\ mergePc = "idle"

\* the call of mergeSignatures(...signatureArrays)
MergeInit ==
  /\ mergeInput = <<>>
  /\ signatureMap = <<>>
  /\ merged = <<>>
  /\ mergePc = "loop"

\* the inner loop's body for the next record of the lists
MergeVisit(sig) ==
  /\ mergeOnly
  /\ mergePc = "loop"
  /\ Len(mergeInput) < MaxMergeInput
  /\ mergeInput' = Append(mergeInput, sig)
  /\ signatureMap' = KeepFirst(signatureMap, sig)
  /\ UNCHANGED <<merged, mergePc>>

\* the lists are exhausted: sort and return
MergeReturn ==
  /\ mergeOnly
  /\ mergePc = "loop"
  /\ merged' = SortedValues(signatureMap)
  /\ mergePc' = "returned"
  /\ UNCHANGED <<mergeInput, signatureMap>>

MergeNext ==
  \/ \E sig \in MergeRecords : MergeVisit(sig)
  \/ MergeReturn

(***************************************************************************)
(* TransactionClassifier (services/transaction-parser).                    *)
(*                                                                         *)
(* A log line is kept as what the code reads of it: whether it includes    *)
(* "GOVERNANCE-INSTRUCTION:", the word the regular expression              *)
(* /GOVERNANCE-INSTRUCTION:\s*(\w+)/ captures (NoWord when it does not     *)
(* match), whether it includes the chat program id, and whether it         *)
(* includes "invoke".  An instruction is its programId ("none" when the    *)
(* field is missing) and its data: missing, a string (with the first byte  *)
(* of its base64 decoding, NoByte when that is empty) or an object (with   *)
(* its keys).                                                              *)
(***************************************************************************)
GOVERNANCE_PROGRAM_ID == "GovER5Lthms3bLBqWub97yVrMmEogzX7xNjdXpPPCVZw"
GOVERNANCE_CHAT_PROGRAM_ID == "gCHAtYKrUUktTVzE4hEnZdLV4LXrdBf6Hh9qMaJALET"
OTHER_PROGRAM_ID == "11111111111111111111111111111111"

\* enum TransactionType
VOTE == "Vote"
PROPOSAL == "Proposal"
COMMENT == "Comment"
TOKEN_DEPOSIT == "Token Deposit"
TOKEN_WITHDRAWAL == "Token Withdrawal"
DELEGATE == "Delegate"
EXECUTE == "Execute Transaction"
SIGNATORY == "Signatory"
PROPOSAL_INSTRUCTION == "Proposal Instruction"
GOVERNANCE_ADMIN == "Governance Admin"
REFUND == "Refund"
OTHER_GOVERNANCE == "Other Governance"
NullType == "null"

TransactionTypes ==
  {VOTE, PROPOSAL, COMMENT, TOKEN_DEPOSIT, TOKEN_WITHDRAWAL, DELEGATE, EXECUTE,
   SIGNATORY, PROPOSAL_INSTRUCTION, GOVERNANCE_ADMIN, REFUND, OTHER_GOVERNANCE}

\* GOVERNANCE_INSTRUCTION_MAP: the keys it holds, and its values
MappedDiscriminators == (0..28)
GOVERNANCE_INSTRUCTION_MAP(d) ==
  CASE d \in {0, 4, 5, 17, 18, 19, 20, 21, 22, 24, 25, 26} -> "Governance Admin"
    [] d \in {1, 23} -> "Token Deposit"
    [] d = 2 -> "Token Withdrawal"
    [] d = 3 -> "Delegate"
    [] d \in {6, 11, 12, 14, 28} -> "Proposal"
    [] d \in {7, 8} -> "Signatory"
    [] d \in {9, 10} -> "Proposal Instruction"
    [] d \in {13, 15} -> "Vote"
    [] d = 16 -> "Execute Transaction"
    [] d = 27 -> "Refund"

\* stringToTransactionType(typeString)
stringToTransactionType(typeString) ==
  CASE typeString = "Vote" -> VOTE
    [] typeString = "Proposal" -> PROPOSAL
    [] typeString = "Comment" -> COMMENT
    [] typeString = "Token Deposit" -> TOKEN_DEPOSIT
    [] typeString = "Token Withdrawal" -> TOKEN_WITHDRAWAL
    [] typeString = "Delegate" -> DELEGATE
    [] typeString = "Execute Transaction" -> EXECUTE
    [] typeString = "Governance Admin" -> GOVERNANCE_ADMIN
    [] typeString = "Signatory" -> SIGNATORY
    [] typeString = "Proposal Instruction" -> PROPOSAL_INSTRUCTION
    [] typeString = "Refund" -> REFUND
    [] OTHER -> OTHER_GOVERNANCE

\* mutant: a governance discriminator the table does not hold gives no type
getTransactionTypeFromDiscriminator_DropUnmapped(discriminator, programId) ==
  IF programId = GOVERNANCE_CHAT_PROGRAM_ID THEN COMMENT
  ELSE IF programId = GOVERNANCE_PROGRAM_ID /\ discriminator \in MappedDiscriminators
  THEN stringToTransactionType(GOVERNANCE_INSTRUCTION_MAP(discriminator))
  ELSE NullType

\* mutant: the table is read one entry further on
getTransactionTypeFromDiscriminator_NextEntry(discriminator, programId) ==
  IF programId = GOVERNANCE_CHAT_PROGRAM_ID THEN COMMENT
  ELSE IF programId = GOVERNANCE_PROGRAM_ID
  THEN IF discriminator + 1 \in MappedDiscriminators
       THEN stringToTransactionType(GOVERNANCE_INSTRUCTION_MAP(discriminator + 1))
       ELSE OTHER_GOVERNANCE
  ELSE NullType

\* getTransactionTypeFromDiscriminator(discriminator, programId)
getTransactionTypeFromDiscriminator(discriminator, programId) ==
  IF programId = GOVERNANCE_CHAT_PROGRAM_ID THEN COMMENT
  ELSE IF programId = GOVERNANCE_PROGRAM_ID
  THEN IF discriminator \in MappedDiscriminators
       THEN stringToTransactionType(GOVERNANCE_INSTRUCTION_MAP(discriminator))
       ELSE OTHER_GOVERNANCE
  ELSE NullType

\* isGovernanceProgram(programId)
isGovernanceProgram(programId) ==
  programId = GOVERNANCE_PROGRAM_ID \/ programId = GOVERNANCE_CHAT_PROGRAM_ID

\* mapLogInstructionToType(instructionName)
mapLogInstructionToType(normalized) ==
  CASE normalized \in {"CastVote", "RelinquishVote"} -> VOTE
    [] normalized \in {"CreateProposal", "SignOffProposal", "CancelProposal",
                       "FinalizeVote", "CompleteProposal"} -> PROPOSAL
    [] normalized \in {"DepositGoverningTokens", "CreateTokenOwnerRecord"} -> TOKEN_DEPOSIT
    [] normalized = "WithdrawGoverningTokens" -> TOKEN_WITHDRAWAL
    [] normalized = "SetGovernanceDelegate" -> DELEGATE
    [] normalized = "ExecuteTransaction" -> EXECUTE
    [] normalized \in {"AddSignatory", "RemoveSignatory"} -> SIGNATORY
    [] normalized \in {"InsertTransaction", "RemoveTransaction"} -> PROPOSAL_INSTRUCTION
    [] normalized \in {"CreateRealm", "CreateGovernance", "CreateProgramGovernance",
                       "CreateMintGovernance", "CreateTokenGovernance",
                       "SetGovernanceConfig", "FlagTransactionError",
                       "SetRealmAuthority", "SetRealmConfig", "UpdateProgramMetadata",
                       "CreateNativeTreasury", "RevokeGoverningTokens"} -> GOVERNANCE_ADMIN
    [] normalized = "RefundProposalDeposit" -> REFUND
    [] OTHER -> OTHER_GOVERNANCE

NoWord == ""
\* a log line with "GOVERNANCE-INSTRUCTION:" whose name the regex captures
NamesInstruction(log) == log.marker /\ log.word # NoWord
\* a log line that includes the chat program id and "invoke"
InvokesChat(log) == log.chat /\ log.invoke

\* mutant: one loop over the lines, which returns at the first line that
\* names an instruction or invokes the chat program
getInstructionTypeFromLogs_OneLoop(logs) ==
  LET hits == {n \in 1..Len(logs) : NamesInstruction(logs[n]) \/ InvokesChat(logs[n])}
  IN IF hits = {} THEN NullType
     ELSE LET first == logs[CHOOSE n \in hits : \A m \in hits : n <= m]
          IN IF NamesInstruction(first) THEN mapLogInstructionToType(first.word)
             ELSE COMMENT

\* getInstructionTypeFromLogs(tx): the first loop returns at the first line
\* that names an instruction; only then the second loop looks for the chat
\* program
getInstructionTypeFromLogs(logs) ==
  LET named == {n \in 1..Len(logs) : NamesInstruction(logs[n])}
  IN IF named # {}
     THEN mapLogInstructionToType(logs[CHOOSE n \in named : \A m \in named : n <= m].word)
     ELSE IF \E n \in 1..Len(logs) : InvokesChat(logs[n]) THEN COMMENT
     ELSE NullType

NoByte == -1
\* getInstructionDiscriminator(data) on a string: the first byte of its
\* base64 decoding, null when the decoding is empty
getInstructionDiscriminator(data) == data.first

\* the chain of "'key' in parsedIx" tests, the same at top level and for
\* inner instructions
ParsedShapeType(keys) ==
  IF keys \cap {"vote", "castVote", "relinquishVote"} # {} THEN VOTE
  ELSE IF keys \cap {"proposal", "createProposal", "cancelProposal",
                     "signOffProposal", "finalizeVote", "completeProposal"} # {}
  THEN PROPOSAL
  ELSE IF keys \cap {"depositGoverningTokens", "createTokenOwnerRecord"} # {}
  THEN TOKEN_DEPOSIT
  ELSE IF "withdrawGoverningTokens" \in keys THEN TOKEN_WITHDRAWAL
  ELSE IF "setGovernanceDelegate" \in keys THEN DELEGATE
  ELSE IF "executeTransaction" \in keys THEN EXECUTE
  ELSE IF keys \cap {"addSignatory", "removeSignatory"} # {} THEN SIGNATORY
  ELSE IF keys \cap {"insertTransaction", "removeTransaction"} # {}
  THEN PROPOSAL_INSTRUCTION
  ELSE IF "refundProposalDeposit" \in keys THEN REFUND
  ELSE IF keys \cap {"createRealm", "createGovernance", "setGovernanceConfig",
                     "setRealmAuthority", "setRealmConfig", "createNativeTreasury"} # {}
  THEN GOVERNANCE_ADMIN
  ELSE OTHER_GOVERNANCE

\* the body of the loop over the top-level instructions: the type it
\* returns, NullType when it goes on to the next instruction
TopLevelType(instruction) ==
  LET programId == IF instruction.programId = "none" THEN "" ELSE instruction.programId
      data == instruction.data
      discriminator == getInstructionDiscriminator(data)
      fromData ==
        IF data.kind = "string"
        THEN IF discriminator # NoByte
             THEN getTransactionTypeFromDiscriminator(discriminator, programId)
             ELSE NullType
        ELSE IF data.kind = "object" THEN ParsedShapeType(data.keys)
        ELSE NullType
  IN IF ~isGovernanceProgram(programId) THEN NullType
     ELSE IF fromData # NullType THEN fromData
     ELSE IF programId = GOVERNANCE_CHAT_PROGRAM_ID THEN COMMENT
     ELSE NullType

\* "if (data)": a missing field, null and the empty string are falsy
IsTruthyData(data) ==
  data.kind = "object" \/ (data.kind = "string" /\ ~data.empty)

\* mutant: the inner sweep reads string data only
InnerType_StringsOnly(ix) ==
  LET data == ix.data
      discriminator == getInstructionDiscriminator(data)
  IN IF ix.programId = "none" THEN NullType
     ELSE IF ix.programId = GOVERNANCE_CHAT_PROGRAM_ID THEN COMMENT
     ELSE IF ix.programId = GOVERNANCE_PROGRAM_ID /\ IsTruthyData(data)
     THEN IF data.kind = "string" /\ discriminator # NoByte
          THEN getTransactionTypeFromDiscriminator(discriminator, ix.programId)
          ELSE NullType
     ELSE NullType

\* the body of the loop over the inner instructions
InnerType(ix) ==
  LET data == ix.data
      discriminator == getInstructionDiscriminator(data)
  IN IF ix.programId = "none" THEN NullType
     ELSE IF ix.programId = GOVERNANCE_CHAT_PROGRAM_ID THEN COMMENT
     ELSE IF ix.programId = GOVERNANCE_PROGRAM_ID /\ IsTruthyData(data)
     THEN IF data.kind = "string"
          THEN IF discriminator # NoByte
               THEN getTransactionTypeFromDiscriminator(discriminator, ix.programId)
               ELSE NullType
          ELSE ParsedShapeType(data.keys)
     ELSE NullType

\* a loop that returns the first type found
RECURSIVE FirstType(_, _)
FirstType(types, k) ==
  IF k > Len(types) THEN NullType
  ELSE IF types[k] # NullType THEN types[k]
  ELSE FirstType(types, k + 1)

\* mutant: the discriminator tier is asked before the logs
TierOrder_DiscriminatorFirst(logBasedType, topLevelType, innerType) ==
  IF topLevelType # NullType THEN topLevelType
  ELSE IF logBasedType # NullType THEN logBasedType
  ELSE innerType

\* the order of the tiers in determineTransactionType: the logs, then the
\* top-level instructions, then the inner instructions
TierOrder(logBasedType, topLevelType, innerType) ==
  IF logBasedType # NullType THEN logBasedType
  ELSE IF topLevelType # NullType THEN topLevelType
  ELSE innerType

\* determineTransactionType(tx)
determineTransactionType(t) ==
  TierOrder(getInstructionTypeFromLogs(t.logMessages),
            FirstType([n \in 1..Len(t.instructions) |-> TopLevelType(t.instructions[n])], 1),
            FirstType([n \in 1..Len(t.innerInstructions) |-> InnerType(t.innerInstructions[n])], 1))

\* the log lines, data values and instructions the transactions are made of
Line(marker, word, chat, invoke) ==
  [marker |-> marker, word |-> word, chat |-> chat, invoke |-> invoke]
LogLines ==
  {Line(TRUE, "CastVote", FALSE, FALSE), Line(TRUE, "CreateProposal", FALSE, FALSE),
   Line(TRUE, "Frobnicate", FALSE, FALSE), Line(TRUE, NoWord, FALSE, FALSE),
   Line(FALSE, NoWord, TRUE, TRUE), Line(FALSE, NoWord, TRUE, FALSE),
   Line(FALSE, NoWord, FALSE, TRUE)}

NoData == [kind |-> "absent", first |-> NoByte, empty |-> FALSE, keys |-> {}]
StringData(first) == [kind |-> "string", first |-> first, empty |-> FALSE, keys |-> {}]
EmptyString == [kind |-> "string", first |-> NoByte, empty |-> TRUE, keys |-> {}]
ObjectData(keys) == [kind |-> "object", first |-> NoByte, empty |-> FALSE, keys |-> keys]

Instructions ==
  [programId : {GOVERNANCE_PROGRAM_ID},
   data : {StringData(13), StringData(6), StringData(200), StringData(NoByte),
           EmptyString, ObjectData({"castVote"}), ObjectData({"memo"}), NoData}]
  \cup [programId : {GOVERNANCE_CHAT_PROGRAM_ID}, data : {StringData(0), NoData}]
  \cup [programId : {OTHER_PROGRAM_ID}, data : {StringData(13)}]
  \cup [programId : {"none"}, data : {NoData}]

TxShapes ==
  {sh \in (0..MaxTxItems) \X (0..MaxTxItems) \X (0..MaxTxItems) :
     sh[1] + sh[2] + sh[3] <= MaxTxItems}

Transactions ==
  UNION {[logMessages : [1..sh[1] -> LogLines],
          instructions : [1..sh[2] -> Instructions],
          innerInstructions : [1..sh[3] -> Instructions]] : sh \in TxShapes}

NoTx == [logMessages |-> <<>>, instructions |-> <<>>, innerInstructions |-> <<>>]

ClassIdle ==
  /\ tx = NoTx
  /\ txType = NullType
  /\ classPc = "idle"

\* the call of determineTransactionType(tx)
ClassInit ==
  /\ tx \in Transactions
  /\ txType = NullType
  /\ classPc = "call"

DetermineTransactionType ==
  /\ classOnly
  /\ classPc = "call"
  /\ txType' = determineTransactionType(tx)
  /\ classPc' = "returned"
  /\ UNCHANGED tx

ClassNext == DetermineTransactionType

(***************************************************************************)
(* CostCalculator and the acceptance of a transaction                      *)
(* (services/transaction-parser: calculateRentCost, getFeePayer,           *)
(* parseTransaction).                                                      *)
(***************************************************************************)
walletAddress == "wallet"
Addresses == {walletAddress, "other"}
Lamports == 0..MaxLamports

\* the index of the first account key equal to walletAddress, from 1 as
\* sequences count; 0 is the code's -1
WalletIndex(accountKeys) ==
  LET found == {n \in 1..Len(accountKeys) : accountKeys[n] = walletAddress}
  IN IF found = {} THEN 0 ELSE CHOOSE n \in found : \A m \in found : n <= m

\* balances[walletIndex] || 0
BalanceAt(balances, index) ==
  IF index \in 1..Len(balances) THEN balances[index] ELSE 0

\* mutant: the balance change less the fee, not clamped
calculateRentCost_NoClamp(t) ==
  IF ~t.hasMeta THEN 0
  ELSE IF WalletIndex(t.accountKeys) = 0 THEN 0
  ELSE BalanceAt(t.preBalances, WalletIndex(t.accountKeys))
         - BalanceAt(t.postBalances, WalletIndex(t.accountKeys)) - t.fee

\* calculateRentCost(tx, walletAddress)
calculateRentCost(t) ==
  IF ~t.hasMeta THEN 0
  ELSE LET walletIndex == WalletIndex(t.accountKeys)
           preBal == BalanceAt(t.preBalances, walletIndex)
           postBal == BalanceAt(t.postBalances, walletIndex)
           balanceChange == preBal - postBal
       IN IF walletIndex = 0 THEN 0 ELSE Max(0, balanceChange - t.fee)

NoPayer == ""
\* mutant: the wallet counts as the payer wherever it stands in the keys
getFeePayer_AnyKey(t) ==
  IF WalletIndex(t.accountKeys) # 0 THEN walletAddress ELSE NoPayer

\* getFeePayer(tx): the first account key, null when there is none
getFeePayer(t) ==
  IF Len(t.accountKeys) = 0 THEN NoPayer ELSE t.accountKeys[1]

NoTracked ==
  [transactionType |-> NullType, transactionFee |-> 0, rentCost |-> 0, totalCost |-> 0]

\* parseTransaction(signature, tx, walletAddress, blockTime)
parseTransaction(t) ==
  IF ~t.present \/ ~t.hasMeta THEN NoTracked
  ELSE IF getFeePayer(t) = NoPayer \/ getFeePayer(t) # walletAddress THEN NoTracked
  ELSE IF determineTransactionType(t.body) = NullType THEN NoTracked
  ELSE [transactionType |-> determineTransactionType(t.body),
        transactionFee |-> t.fee,
        rentCost |-> calculateRentCost(t),
        totalCost |-> t.fee + calculateRentCost(t)]

\* the instructions and logs of the transactions given: a Vote by its log
\* line, a Proposal by its discriminator, and one that does not classify
ParseBodies ==
  {[logMessages |-> <<Line(TRUE, "CastVote", FALSE, FALSE)>>,
    instructions |-> <<[programId |-> GOVERNANCE_PROGRAM_ID, data |-> StringData(13)]>>,
    innerInstructions |-> <<>>],
   [logMessages |-> <<>>,
    instructions |-> <<[programId |-> GOVERNANCE_PROGRAM_ID, data |-> StringData(6)]>>,
    innerInstructions |-> <<>>],
   [logMessages |-> <<>>,
    instructions |-> <<[programId |-> OTHER_PROGRAM_ID, data |-> StringData(13)]>>,
    innerInstructions |-> <<>>]}

\* a transaction with its meta: one balance before and after per account key
TransactionsWithMeta ==
  UNION {[present : {TRUE}, hasMeta : {TRUE},
          accountKeys : [1..n -> Addresses],
          preBalances : [1..n -> Lamports],
          postBalances : [1..n -> Lamports],
          fee : Lamports,
          body : ParseBodies] : n \in 0..MaxKeys}

BlankTx(present) ==
  [present |-> present, hasMeta |-> FALSE, accountKeys |-> <<>>, preBalances |-> <<>>,
   postBalances |-> <<>>, fee |-> 0, body |-> NoTx]

\* null, a transaction without meta, or a transaction with its meta
ParseInputs == {BlankTx(FALSE), BlankTx(TRUE)} \cup TransactionsWithMeta

ParseIdle ==
  /\ parseTx = BlankTx(FALSE)
  /\ tracked = NoTracked
  /\ parsePc = "idle"
  /\ rentCost = 0
  /\ rentPc = "idle"

ParseInit ==
  /\ parseTx \in ParseInputs
  /\ tracked = NoTracked
  /\ parsePc = "call"
  /\ rentCost = 0
  /\ rentPc = "call"

ParseTransaction ==
  /\ parseOnly
  /\ parsePc = "call"
  /\ tracked' = parseTransaction(parseTx)
  /\ parsePc' = "returned"
  /\ UNCHANGED <<parseTx, rentCost, rentPc>>

\* calculateRentCost reads tx.meta and tx.transaction: it is called on a
\* transaction that is not null
CalculateRentCost ==
  /\ parseOnly
  /\ rentPc = "call"
  /\ parseTx.present
  /\ rentCost' = calculateRentCost(parseTx)
  /\ rentPc' = "returned"
  /\ UNCHANGED <<parseTx, tracked, parsePc>>

ParseNext == ParseTransaction \/ CalculateRentCost

(***************************************************************************)
(* ResultAggregator (utils/csv-generator: calculateResults), in its        *)
(* revision with one summary per value of TransactionType.                 *)
(***************************************************************************)
\* mutant: the sum of the network fees, without the rent
sumFees_FeeOnly(txs) ==
  LET RECURSIVE reduce(_, _)
      reduce(sum, k) ==
        IF k > Len(txs) THEN sum ELSE reduce(sum + txs[k].transactionFee, k + 1)
  IN reduce(0, 1)

\* sumFees(txs): txs.reduce((sum, tx) => sum + tx.totalCost, 0)
sumFees(txs) ==
  LET RECURSIVE reduce(_, _)
      reduce(sum, k) ==
        IF k > Len(txs) THEN sum ELSE reduce(sum + txs[k].totalCost, k + 1)
  IN reduce(0, 1)

\* filterByType(type), on the transactions given
filterByType(txs, type) ==
  LET Keep(t) == t.transactionType = type IN SelectSeq(txs, Keep)

\* createSummary(type)
createSummary(txs, type) ==
  [count |-> Len(filterByType(txs, type)), totalFees |-> sumFees(filterByType(txs, type))]

\* mutant: the last summary is made from the type of the one before it
calculateResults_OtherFromRefund(txs) ==
  [votes |-> createSummary(txs, VOTE),
   proposals |-> createSummary(txs, PROPOSAL),
   comments |-> createSummary(txs, COMMENT),
   tokenDeposits |-> createSummary(txs, TOKEN_DEPOSIT),
   tokenWithdrawals |-> createSummary(txs, TOKEN_WITHDRAWAL),
   delegates |-> createSummary(txs, DELEGATE),
   executes |-> createSummary(txs, EXECUTE),
   signatories |-> createSummary(txs, SIGNATORY),
   proposalInstructions |-> createSummary(txs, PROPOSAL_INSTRUCTION),
   governanceAdmin |-> createSummary(txs, GOVERNANCE_ADMIN),
   refunds |-> createSummary(txs, REFUND),
   otherGovernance |-> createSummary(txs, REFUND),
   totalCount |-> Len(txs),
   totalFees |-> sumFees(txs)]

\* calculateResults(transactions)
calculateResults(txs) ==
  [votes |-> createSummary(txs, VOTE),
   proposals |-> createSummary(txs, PROPOSAL),
   comments |-> createSummary(txs, COMMENT),
   tokenDeposits |-> createSummary(txs, TOKEN_DEPOSIT),
   tokenWithdrawals |-> createSummary(txs, TOKEN_WITHDRAWAL),
   delegates |-> createSummary(txs, DELEGATE),
   executes |-> createSummary(txs, EXECUTE),
   signatories |-> createSummary(txs, SIGNATORY),
   proposalInstructions |-> createSummary(txs, PROPOSAL_INSTRUCTION),
   governanceAdmin |-> createSummary(txs, GOVERNANCE_ADMIN),
   refunds |-> createSummary(txs, REFUND),
   otherGovernance |-> createSummary(txs, OTHER_GOVERNANCE),
   totalCount |-> Len(txs),
   totalFees |-> sumFees(txs)]

\* a TrackedTransaction as parseTransaction makes it: totalCost is
\* transactionFee + rentCost
Tracked(type, fee, rent) ==
  [transactionType |-> type, transactionFee |-> fee, rentCost |-> rent,
   totalCost |-> fee + rent]

\* the fee and the rent of the transactions given, in lamports
Costs == {<<5000, 0>>, <<7000, 2000>>}

TrackedTransactions ==
  {Tracked(type, c[1], c[2]) : type \in TransactionTypes, c \in Costs}

TrackedLists == UNION {[1..n -> TrackedTransactions] : n \in 0..MaxTracked}

ResultsIdle ==
  /\ transactions = <<>>
  /\ trackingResults = calculateResults(<<>>)
  /\ resultsPc = "idle"

ResultsInit ==
  /\ transactions \in TrackedLists
  /\ trackingResults = calculateResults(<<>>)
  /\ resultsPc = "call"

CalculateResults ==
  /\ resultsOnly
  /\ resultsPc = "call"
  /\ trackingResults' = calculateResults(transactions)
  /\ resultsPc' = "returned"
  /\ UNCHANGED transactions

ResultsNext == CalculateResults

(***************************************************************************)
(* The run (index.ts: main; services/governance), through the merge of the *)
(* three signature sources.  A call on the connection is recorded with     *)
(* the function it is made from, whether it is made inside withRetry, and  *)
(* the number of throttle() calls completed for it.  What the transport    *)
(* answers is an input of the step that calls it.                          *)
(***************************************************************************)
RpcCall(method, target, caller, viaRetry, acquires) ==
  [method |-> method, target |-> target, caller |-> caller, viaRetry |-> viaRetry,
   acquires |-> acquires]

\* the call fetchSignaturesForAddress makes: inside withRetry, which calls
\* throttle() before the operation
PageCall(target, acquires) ==
  RpcCall("getSignaturesForAddress", target, "fetchSignaturesForAddress", TRUE, acquires)

SigInfo(signature, blockTime) ==
  [signature |-> signature, blockTime |-> blockTime, confirmationStatus |-> "finalized"]

\* what fetchSignaturesForAddress may return for an address: in-window
\* entries, newest first, each signature once
SourceLists ==
  {<<>>, <<SigInfo("sa", 2)>>, <<SigInfo("sa", 2), SigInfo("sb", 1)>>,
   <<SigInfo("sc", 2), SigInfo("sb", 1)>>}

\* fetchSignaturesForAddress returns a list, or throws what withRetry
\* throws when its attempts are used up
Exhausted == [returned |-> FALSE, list |-> <<>>]
FetchOutcomes == {[returned |-> TRUE, list |-> l] : l \in SourceLists} \cup {Exhausted}

\* the addresses the run queries
RealmAddress == <<"realm", 0>>
TokenOwnerRecordAddress == <<"tokenOwnerRecord", 0>>
WalletAddress == <<"wallet", 0>>
VoteRecordName(n) == <<"voteRecord", n>>
NoAddress == <<"", 0>>

RECURSIVE MergeFrom(_, _, _)
MergeFrom(list, k, m) ==
  IF k > Len(list) THEN m ELSE MergeFrom(list, k + 1, KeepFirst(m, list[k]))

\* mergeSignatures(...signatureArrays), for the three arrays main gives it
mergeSignatures(a, b, c) == SortedValues(MergeFrom(a \o b \o c, 1, <<>>))

\* mutant: the membership record is queried whether it exists or not
QueriesMembership_Always(exists) == TRUE

\* "torExists ? await fetchSignaturesForAddress(...) : []" and
\* "if (torExists)"
QueriesMembership(exists) == exists

\* process.exit(1), from the catch of main or after parseRealmData
Exit(reason) ==
  /\ mainPc' = "exited"
  /\ exitReason' = reason

MainIdle ==
  /\ mainPc = "idle"
  /\ rpcCalls = <<>>
  /\ torExists = FALSE
  /\ candidates = 0
  /\ vrHistory = <<>>
  /\ voteRecords = <<>>
  /\ vr = 1
  /\ torSignatures = <<>>
  /\ voteRecordSignatures = <<>>
  /\ walletSignatures = <<>>
  /\ runSignatures = <<>>
  /\ warnings = <<>>
  /\ exitReason = ""

\* after loadConfig and getConnection
MainInit ==
  /\ mainPc = "getBlockHeight"
  /\ rpcCalls = <<>>
  /\ torExists = FALSE
  /\ candidates = 0
  /\ vrHistory = <<>>
  /\ voteRecords = <<>>
  /\ vr = 1
  /\ torSignatures = <<>>
  /\ voteRecordSignatures = <<>>
  /\ walletSignatures = <<>>
  /\ runSignatures = <<>>
  /\ warnings = <<>>
  /\ exitReason = ""

\* "const blockHeight = await connection.getBlockHeight()"
GetBlockHeight(ok) ==
  /\ mainOnly
  /\ mainPc = "getBlockHeight"
  /\ rpcCalls' = Append(rpcCalls, RpcCall("getBlockHeight", NoAddress, "main", FALSE, 0))
  /\ IF ok THEN mainPc' = "parseRealmData" /\ UNCHANGED exitReason
     ELSE Exit("getBlockHeight")
  /\ UNCHANGED <<torExists, candidates, vrHistory, voteRecords, vr, torSignatures,
                 voteRecordSignatures, walletSignatures, runSignatures, warnings>>

\* parseRealmData: null (also on an error, which it catches) ends the run
ParseRealmData(ok) ==
  /\ mainOnly
  /\ mainPc = "parseRealmData"
  /\ rpcCalls' = Append(rpcCalls, RpcCall("getAccountInfo", RealmAddress, "parseRealmData", FALSE, 0))
  /\ IF ok THEN mainPc' = "tokenOwnerRecordExists" /\ UNCHANGED exitReason
     ELSE Exit("parseRealmData")
  /\ UNCHANGED <<torExists, candidates, vrHistory, voteRecords, vr, torSignatures,
                 voteRecordSignatures, walletSignatures, runSignatures, warnings>>

\* tokenOwnerRecordExists: false also when the call fails
TokenOwnerRecordExists(exists) ==
  /\ mainOnly
  /\ mainPc = "tokenOwnerRecordExists"
  /\ rpcCalls' = Append(rpcCalls,
                        RpcCall("getAccountInfo", TokenOwnerRecordAddress, "tokenOwnerRecordExists", FALSE, 1))
  /\ torExists' = exists
  /\ mainPc' = "torSignatures"
  /\ UNCHANGED <<candidates, vrHistory, voteRecords, vr, torSignatures, voteRecordSignatures,
                 walletSignatures, runSignatures, warnings, exitReason>>

\* source 1: the membership record is queried only if it exists; what
\* fetchSignaturesForAddress throws goes to the catch of main
TorSignatures(outcome) ==
  /\ mainOnly
  /\ mainPc = "torSignatures"
  /\ IF ~QueriesMembership(torExists)
     THEN /\ outcome = Exhausted
          /\ mainPc' = "walletSignatures"
          /\ UNCHANGED <<rpcCalls, torSignatures, exitReason>>
     ELSE /\ rpcCalls' = Append(rpcCalls, PageCall(TokenOwnerRecordAddress, 1))
          /\ IF outcome = Exhausted
             THEN Exit("tokenOwnerRecord signatures") /\ UNCHANGED torSignatures
             ELSE /\ torSignatures' = outcome.list
                  /\ mainPc' = "fetchVoteRecords"
                  /\ UNCHANGED exitReason
  /\ UNCHANGED <<torExists, candidates, vrHistory, voteRecords, vr, voteRecordSignatures,
                 walletSignatures, runSignatures, warnings>>

\* fetchVoteRecordsForTokenOwnerRecord, up to its timestamp filter: the
\* accounts getProgramAccounts returns for the membership record; an
\* error is caught and gives no vote record
FetchVoteRecords(ok, n) ==
  /\ mainOnly
  /\ mainPc = "fetchVoteRecords"
  /\ rpcCalls' = Append(rpcCalls,
                        RpcCall("getProgramAccounts", TokenOwnerRecordAddress,
                                "fetchVoteRecordsForTokenOwnerRecord", FALSE, 1))
  /\ candidates' = IF ok THEN n ELSE 0
  /\ vrHistory' = <<>>
  /\ voteRecords' = <<>>
  /\ vr' = 1
  /\ mainPc' = IF ok /\ n > 0 THEN "filterVoteRecords" ELSE "walletSignatures"
  /\ warnings' = IF ok THEN warnings ELSE Append(warnings, TokenOwnerRecordAddress)
  /\ UNCHANGED <<torExists, torSignatures, voteRecordSignatures, walletSignatures,
                 runSignatures, exitReason>>

\* what the lookup of a vote record's most recent signature finds
NewestSignatureOutcomes == {"in window", "outside window", "no block time", "error"}

\* the entries of a vote record's history that fetchSignaturesForAddress
\* returns when it is asked for them
HistoryOf(voteRecord) == vrHistory[voteRecord[2]]

\* the body of the timestamp filter's loop: the most recent signature of
\* the vote record decides whether the record is kept, whatever else the
\* history of the record holds
FilterVoteRecord(found, inWindow) ==
  /\ mainOnly
  /\ mainPc = "filterVoteRecords"
  /\ rpcCalls' = Append(rpcCalls,
                        RpcCall("getSignaturesForAddress", VoteRecordName(vr),
                                "fetchVoteRecordsForTokenOwnerRecord", FALSE, 1))
  /\ voteRecords' = IF found \in {"in window", "no block time"}
                    THEN Append(voteRecords, VoteRecordName(vr)) ELSE voteRecords
  /\ vrHistory' = Append(vrHistory, inWindow)
  /\ warnings' = IF found = "error" THEN Append(warnings, VoteRecordName(vr)) ELSE warnings
  /\ IF vr < candidates
     THEN vr' = vr + 1 /\ UNCHANGED mainPc
     ELSE /\ vr' = 1
          /\ mainPc' = IF Len(voteRecords') > 0 THEN "voteRecordSignatures"
                       ELSE "walletSignatures"
  /\ UNCHANGED <<torExists, candidates, torSignatures, voteRecordSignatures,
                 walletSignatures, runSignatures, exitReason>>

\* source 2, the body of the loop over the vote records kept: throttle(),
\* then fetchSignaturesForAddress inside try/catch
VoteRecordSignatures(outcome) ==
  /\ mainOnly
  /\ mainPc = "voteRecordSignatures"
  /\ outcome.returned => outcome.list = HistoryOf(voteRecords[vr])
  /\ rpcCalls' = Append(rpcCalls, PageCall(voteRecords[vr], 2))
  /\ IF outcome = Exhausted
     THEN /\ warnings' = Append(warnings, voteRecords[vr])
          /\ UNCHANGED voteRecordSignatures
     ELSE /\ voteRecordSignatures' = voteRecordSignatures \o outcome.list
          /\ UNCHANGED warnings
  /\ IF vr < Len(voteRecords)
     THEN vr' = vr + 1 /\ UNCHANGED mainPc
     ELSE vr' = 1 /\ mainPc' = "walletSignatures"
  /\ UNCHANGED <<torExists, candidates, vrHistory, voteRecords, torSignatures, walletSignatures,
                 runSignatures, exitReason>>

\* source 3: what fetchSignaturesForAddress throws goes to the catch of
\* main
WalletSignatures(outcome) ==
  /\ mainOnly
  /\ mainPc = "walletSignatures"
  /\ rpcCalls' = Append(rpcCalls, PageCall(WalletAddress, 1))
  /\ IF outcome = Exhausted
     THEN Exit("wallet signatures") /\ UNCHANGED walletSignatures
     ELSE /\ walletSignatures' = outcome.list
          /\ mainPc' = "mergeSignatures"
          /\ UNCHANGED exitReason
  /\ UNCHANGED <<torExists, candidates, vrHistory, voteRecords, vr, torSignatures,
                 voteRecordSignatures, runSignatures, warnings>>

\* "const signatures = mergeSignatures(torSignatures, voteRecordSignatures,
\* walletSignatures)"
MergeSources ==
  /\ mainOnly
  /\ mainPc = "mergeSignatures"
  /\ runSignatures' = mergeSignatures(torSignatures, voteRecordSignatures, walletSignatures)
  /\ mainPc' = "merged"
  /\ UNCHANGED <<rpcCalls, torExists, candidates, vrHistory, voteRecords, vr, torSignatures,
                 voteRecordSignatures, walletSignatures, warnings, exitReason>>

MainNext ==
  \/ \E ok \in BOOLEAN : GetBlockHeight(ok)
  \/ \E ok \in BOOLEAN : ParseRealmData(ok)
  \/ \E exists \in BOOLEAN : TokenOwnerRecordExists(exists)
  \/ \E outcome \in FetchOutcomes : TorSignatures(outcome)
  \/ \E ok \in BOOLEAN, n \in 0..MaxVoteRecords : FetchVoteRecords(ok, n)
  \/ \E found \in NewestSignatureOutcomes, inWindow \in SourceLists :
       FilterVoteRecord(found, inWindow)
  \/ \E outcome \in FetchOutcomes : VoteRecordSignatures(outcome)
  \/ \E outcome \in FetchOutcomes : WalletSignatures(outcome)
  \/ MergeSources

(***************************************************************************)
(* main (index.ts), from the merged signature list on: the details of the  *)
(* signatures are fetched into a Map, the loop over the Map parses each    *)
(* entry, and the list of what was tracked goes to calculateResults.       *)
(* fetchTransactionsBatch, parseTransaction and calculateResults are       *)
(* modelled above; here the batch answers with its Map or throws, and a    *)
(* transaction carries what this part of main reads of it: its blockTime   *)
(* and the type determineTransactionType gives it.                         *)
(***************************************************************************)
\* what mergeSignatures may return to main
MergedLists ==
  {mergeSignatures(a, b, c) : a \in SourceLists, b \in SourceLists, c \in SourceLists}

\* what getParsedTransaction answers: null, or a transaction
NullTx == [present |-> FALSE, blockTime |-> NoTime, type |-> NullType]
TxAnswers ==
  {NullTx} \cup [present : {TRUE}, blockTime : {NoTime, MaxBlockTime},
                 type : {NullType, VOTE, COMMENT}]

\* "signatures.map(s => s.signature)"
SignatureStrings(list) == [n \in 1..Len(list) |-> list[n].signature]

\* the Map fetchTransactionsBatch builds: "results.set(result.signature,
\* result.transaction)", wave after wave, in the order of the signatures
RECURSIVE BatchResults(_, _, _, _)
BatchResults(sigs, answers, k, m) ==
  IF k > Len(sigs) THEN m
  ELSE BatchResults(sigs, answers, k + 1, MapSet(m, sigs[k], answers[k]))

\* "signatures.find(s => s.signature === signature)"
NoSigInfo == [signature |-> "", blockTime |-> NoTime, confirmationStatus |-> ""]
FindSigInfo(list, signature) ==
  LET at == {n \in 1..Len(list) : list[n].signature = signature}
  IN IF at = {} THEN NoSigInfo
     ELSE list[CHOOSE n \in at : \A m \in at : n <= m]

\* mutant: the block time of the transaction goes before the one of the
\* signature list
EntryBlockTime_TransactionFirst(sigInfo, t) ==
  IF t.present /\ ~IsFalsy(t.blockTime) THEN t.blockTime
  ELSE IF ~IsFalsy(sigInfo.blockTime) THEN sigInfo.blockTime
  ELSE 0

\* "sigInfo?.blockTime || tx?.blockTime || 0"
EntryBlockTime(sigInfo, t) ==
  IF ~IsFalsy(sigInfo.blockTime) THEN sigInfo.blockTime
  ELSE IF t.present /\ ~IsFalsy(t.blockTime) THEN t.blockTime
  ELSE 0

\* mutant: a transaction determineTransactionType gives no type is tracked
\* too
IsTracked_Untyped(t) == t.present

\* parseTransaction(signature, tx, walletAddress, blockTime), as far as main
\* reads it: null, or a record with the signature and the blockTime given
IsTracked(t) == t.present /\ t.type # NullType
TrackedEntry(signature, t, blockTime) ==
  [signature |-> signature, blockTime |-> blockTime, transactionType |-> t.type]

ReportIdle ==
  /\ mergedSignatures = <<>>
  /\ details = <<>>
  /\ trackedTransactions = <<>>
  /\ processedCount = 0
  /\ reportPc = "idle"

\* after "const signatures = mergeSignatures(...)"
ReportInit ==
  /\ mergedSignatures \in MergedLists
  /\ details = <<>>
  /\ trackedTransactions = <<>>
  /\ processedCount = 0
  /\ reportPc = "merged"

\* "if (signatures.length === 0) { ...; return; }"
NoTransactions ==
  /\ reportOnly
  /\ reportPc = "merged"
  /\ Len(mergedSignatures) = 0
  /\ reportPc' = "returned"
  /\ UNCHANGED <<mergedSignatures, details, trackedTransactions, processedCount>>

\* "const transactions = await fetchTransactionsBatch(...)" returns
FetchDetails ==
  /\ reportOnly
  /\ reportPc = "merged"
  /\ Len(mergedSignatures) > 0
  /\ \E answers \in [1..Len(mergedSignatures) -> TxAnswers] :
       details' = BatchResults(SignatureStrings(mergedSignatures), answers, 1, <<>>)
  /\ reportPc' = "parse"
  /\ UNCHANGED <<mergedSignatures, trackedTransactions, processedCount>>

\* fetchTransactionsBatch throws: the catch of main, process.exit(1)
FetchDetailsFails ==
  /\ reportOnly
  /\ reportPc = "merged"
  /\ Len(mergedSignatures) > 0
  /\ reportPc' = "exited"
  /\ UNCHANGED <<mergedSignatures, details, trackedTransactions, processedCount>>

\* one pass of "for (const [signature, tx] of transactions)"
ParseEntry ==
  /\ reportOnly
  /\ reportPc = "parse"
  /\ processedCount < Len(details)
  /\ processedCount' = processedCount + 1
  /\ LET signature == details[processedCount'][1]
         t == details[processedCount'][2]
         blockTime == EntryBlockTime(FindSigInfo(mergedSignatures, signature), t)
     IN trackedTransactions' =
          IF ~IsFalsy(blockTime) /\ IsTracked(t)
          THEN Append(trackedTransactions, TrackedEntry(signature, t, blockTime))
          ELSE trackedTransactions
  /\ UNCHANGED <<mergedSignatures, details, reportPc>>

\* after the loop: "if (trackedTransactions.length === 0) { ...; return; }",
\* else "const results = calculateResults(trackedTransactions)"
HandOver ==
  /\ reportOnly
  /\ reportPc = "parse"
  /\ processedCount = Len(details)
  /\ reportPc' = IF Len(trackedTransactions) = 0 THEN "returned" ELSE "calculateResults"
  /\ UNCHANGED <<mergedSignatures, details, trackedTransactions, processedCount>>

ReportNext ==
  \/ NoTransactions
  \/ FetchDetails
  \/ FetchDetailsFails
  \/ ParseEntry
  \/ HandOver

(***************************************************************************)
(* One governance instruction through the tiers.  The data of an           *)
(* instruction reaches the classifier as a string that encodes the bytes   *)
(* of the payload; getInstructionDiscriminator's documentation names       *)
(* base64 and base58 as the encodings of such strings.  A string is a      *)
(* sequence of characters here.                                            *)
(***************************************************************************)
Base58Alphabet ==
  <<
    "1", "2", "3", "4", "5", "6", "7", "8", "9", "A", "B", "C", "D", "E", "F", "G",
    "H", "J", "K", "L", "M", "N", "P", "Q", "R", "S", "T", "U", "V", "W", "X", "Y",
    "Z", "a", "b", "c", "d", "e", "f", "g", "h", "i", "j", "k", "m", "n", "o", "p",
    "q", "r", "s", "t", "u", "v", "w", "x", "y", "z"
  >>
Base64Alphabet ==
  <<
    "A", "B", "C", "D", "E", "F", "G", "H", "I", "J", "K", "L", "M", "N", "O", "P",
    "Q", "R", "S", "T", "U", "V", "W", "X", "Y", "Z", "a", "b", "c", "d", "e", "f",
    "g", "h", "i", "j", "k", "l", "m", "n", "o", "p", "q", "r", "s", "t", "u", "v",
    "w", "x", "y", "z", "0", "1", "2", "3", "4", "5", "6", "7", "8", "9", "+", "/"
  >>

\* the value of a character in base64, -1 for a character that has none
Base64Value(ch) ==
  IF \E n \in 1..64 : Base64Alphabet[n] = ch
  THEN (CHOOSE n \in 1..64 : Base64Alphabet[n] = ch) - 1
  ELSE -1

\* the number a byte sequence stands for, most significant byte first
RECURSIVE BigEndian(_)
BigEndian(bytes) ==
  IF Len(bytes) = 0 THEN 0
  ELSE BigEndian(SubSeq(bytes, 1, Len(bytes) - 1)) * 256 + bytes[Len(bytes)]

RECURSIVE Base58Digits(_)
Base58Digits(n) ==
  IF n = 0 THEN <<>>
  ELSE Append(Base58Digits(n \div 58), Base58Alphabet[(n % 58) + 1])

\* base58: a "1" for every leading zero byte, then the digits of the number
RECURSIVE Base58Encode(_)
Base58Encode(bytes) ==
  IF Len(bytes) > 0 /\ bytes[1] = 0
  THEN <<"1">> \o Base58Encode(Tail(bytes))
  ELSE Base58Digits(BigEndian(bytes))

\* base64 of up to three bytes: four characters, "=" for the missing ones
Base64Encode(bytes) ==
  LET b(n) == IF n <= Len(bytes) THEN bytes[n] ELSE 0
      c1 == Base64Alphabet[(b(1) \div 4) + 1]
      c2 == Base64Alphabet[((b(1) % 4) * 16 + (b(2) \div 16)) + 1]
      c3 == Base64Alphabet[((b(2) % 16) * 4 + (b(3) \div 64)) + 1]
      c4 == Base64Alphabet[(b(3) % 64) + 1]
  IN CASE Len(bytes) = 0 -> <<>>
       [] Len(bytes) = 1 -> <<c1, c2, "=", "=">>
       [] Len(bytes) = 2 -> <<c1, c2, c3, "=">>
       [] OTHER -> <<c1, c2, c3, c4>>

\* the data string of an instruction with the payload given
EncodePayload(bytes, encoding) ==
  IF encoding = "base58" THEN Base58Encode(bytes) ELSE Base64Encode(bytes)

\* "Buffer.from(data, 'base64')[0]": the decoder never throws; it reads the
\* characters up to the first "=", and two of them make the first byte
DecodedFirstByte(text) ==
  LET stop == {n \in 1..Len(text) : text[n] = "="}
      upto == IF stop = {} THEN text
             ELSE SubSeq(text, 1, (CHOOSE n \in stop : \A m \in stop : n <= m) - 1)
      chars == SelectSeq(upto, LAMBDA ch : Base64Value(ch) >= 0)
  IN IF Len(chars) < 2 THEN NoByte
     ELSE Base64Value(chars[1]) * 4 + (Base64Value(chars[2]) \div 16)

\* the instruction's data as determineTransactionType sees it
EncodedData(text) ==
  IF Len(text) = 0 THEN EmptyString ELSE StringData(DecodedFirstByte(text))

\* enum GovernanceInstructionType: the names of the indices 0..28
GovernanceInstructionNames ==
  <<"CreateRealm", "DepositGoverningTokens", "WithdrawGoverningTokens",
    "SetGovernanceDelegate", "CreateGovernance", "CreateProgramGovernance",
    "CreateProposal", "AddSignatory", "RemoveSignatory", "InsertTransaction",
    "RemoveTransaction", "CancelProposal", "SignOffProposal", "CastVote",
    "FinalizeVote", "RelinquishVote", "ExecuteTransaction", "CreateMintGovernance",
    "CreateTokenGovernance", "SetGovernanceConfig", "FlagTransactionError",
    "SetRealmAuthority", "SetRealmConfig", "CreateTokenOwnerRecord",
    "UpdateProgramMetadata", "CreateNativeTreasury", "RevokeGoverningTokens",
    "RefundProposalDeposit", "CompleteProposal">>

\* the same names as the keys of a parsed instruction object: camelCase
GovernanceInstructionKeys ==
  <<"createRealm", "depositGoverningTokens", "withdrawGoverningTokens",
    "setGovernanceDelegate", "createGovernance", "createProgramGovernance",
    "createProposal", "addSignatory", "removeSignatory", "insertTransaction",
    "removeTransaction", "cancelProposal", "signOffProposal", "castVote",
    "finalizeVote", "relinquishVote", "executeTransaction", "createMintGovernance",
    "createTokenGovernance", "setGovernanceConfig", "flagTransactionError",
    "setRealmAuthority", "setRealmConfig", "createTokenOwnerRecord",
    "updateProgramMetadata", "createNativeTreasury", "revokeGoverningTokens",
    "refundProposalDeposit", "completeProposal">>

\* the payloads: the discriminator alone, or followed by one more byte
Payloads ==
  {<<d>> : d \in 0..MaxDiscriminator}
    \cup {<<d, b>> : d \in 0..MaxDiscriminator, b \in {0, 255}}

\* a transaction without log lines whose one instruction is the given one
SingleInstruction(programId, data) ==
  [logMessages |-> <<>>,
   instructions |-> <<[programId |-> programId, data |-> data]>>,
   innerInstructions |-> <<>>]

IxIdle ==
  /\ ixProgram = ""
  /\ ixPayload = <<>>
  /\ ixEncoding = ""
  /\ ixType = NullType
  /\ ixLogType = NullType
  /\ ixTableType = NullType
  /\ ixShapeType = NullType
  /\ ixPc = "idle"

IxInit ==
  /\ ixProgram \in {GOVERNANCE_PROGRAM_ID, GOVERNANCE_CHAT_PROGRAM_ID}
  /\ ixPayload \in Payloads
  /\ ixEncoding \in {"base64", "base58"}
  /\ ixType = NullType
  /\ ixLogType = NullType
  /\ ixTableType = NullType
  /\ ixShapeType = NullType
  /\ ixPc = "call"

\* determineTransactionType on the transaction that carries the instruction
\* with its data string
ClassifyEncoded ==
  /\ ixOnly
  /\ ixPc = "call"
  /\ ixType' = determineTransactionType(
                 SingleInstruction(ixProgram,
                                   EncodedData(EncodePayload(ixPayload, ixEncoding))))
  /\ ixPc' = "classified"
  /\ UNCHANGED <<ixProgram, ixPayload, ixEncoding, ixLogType, ixTableType, ixShapeType>>

\* the three tiers, each on its own form of a known governance instruction:
\* the name in a log line, the index as discriminator, the camelCase key of
\* a parsed object
ClassifyByTiers ==
  /\ ixOnly
  /\ ixPc = "call"
  /\ ixProgram = GOVERNANCE_PROGRAM_ID
  /\ ixPayload[1] + 1 \in DOMAIN GovernanceInstructionNames
  /\ ixLogType' = mapLogInstructionToType(GovernanceInstructionNames[ixPayload[1] + 1])
  /\ ixTableType' = getTransactionTypeFromDiscriminator(ixPayload[1], ixProgram)
  /\ ixShapeType' = ParsedShapeType({GovernanceInstructionKeys[ixPayload[1] + 1]})
  /\ ixPc' = "tiers"
  /\ UNCHANGED <<ixProgram, ixPayload, ixEncoding, ixType>>

IxNext == ClassifyEncoded \/ ClassifyByTiers

(***************************************************************************)
(* The specifications: one per part, the other parts at rest.              *)
(***************************************************************************)
InitIx ==
  AsyncInit /\ ScanIdle /\ MergeIdle /\ ClassIdle /\ ParseIdle /\ ResultsIdle /\ MainIdle
    /\ ReportIdle /\ IxInit
NextIx == IxNext
SpecIx == InitIx /\ [][NextIx]_vars

InitReport ==
  AsyncInit /\ ScanIdle /\ MergeIdle /\ ClassIdle /\ ParseIdle /\ ResultsIdle /\ MainIdle
    /\ ReportInit /\ IxIdle
NextReport == ReportNext
SpecReport == InitReport /\ [][NextReport]_vars

InitMain ==
  AsyncInit /\ ScanIdle /\ MergeIdle /\ ClassIdle /\ ParseIdle /\ ResultsIdle /\ MainInit
    /\ ReportIdle /\ IxIdle
NextMain == MainNext
SpecMain == InitMain /\ [][NextMain]_vars

InitResults ==
  AsyncInit /\ ScanIdle /\ MergeIdle /\ ClassIdle /\ ParseIdle /\ ResultsInit /\ MainIdle
    /\ ReportIdle /\ IxIdle
NextResults == ResultsNext
SpecResults == InitResults /\ [][NextResults]_vars

InitParse ==
  AsyncInit /\ ScanIdle /\ MergeIdle /\ ClassIdle /\ ParseInit /\ ResultsIdle /\ MainIdle
    /\ ReportIdle /\ IxIdle
NextParse == ParseNext
SpecParse == InitParse /\ [][NextParse]_vars

InitClass ==
  AsyncInit /\ ScanIdle /\ MergeIdle /\ ClassInit /\ ParseIdle /\ ResultsIdle /\ MainIdle
    /\ ReportIdle /\ IxIdle
NextClass == ClassNext
SpecClass == InitClass /\ [][NextClass]_vars

InitMerge ==
  AsyncInit /\ ScanIdle /\ MergeInit /\ ClassIdle /\ ParseIdle /\ ResultsIdle /\ MainIdle
    /\ ReportIdle /\ IxIdle
NextMerge == MergeNext
SpecMerge == InitMerge /\ [][NextMerge]_vars

Init ==
  AsyncInit /\ ScanIdle /\ MergeIdle /\ ClassIdle /\ ParseIdle /\ ResultsIdle /\ MainIdle
    /\ ReportIdle /\ IxIdle
Next == AsyncNext
Spec == Init /\ [][Next]_vars

InitScan ==
  AsyncInit /\ ScanInit /\ MergeIdle /\ ClassIdle /\ ParseIdle /\ ResultsIdle /\ MainIdle
    /\ ReportIdle /\ IxIdle
NextScan == ScanNext
SpecScan == InitScan /\ [][NextScan]_vars


(***************************************************************************)
(* Claims on the asynchronous part.                                        *)
(***************************************************************************)
Fetches == DOMAIN fetch
\* the callbacks that have started and not settled
InFlight == {k \in Fetches : fetch[k].pc \in {"throttle", "op", "backoff"}}
Sleepers == {k \in Fetches : fetch[k].pc = "throttle"}

\* C1: on an initialized limiter a debit happens only when a token is
\* there, so the token count is never below 0.
C1_TokensNeverNegative == limiter.initialized => limiter.tokens >= 0

\* C2: a fetch whose retries are exhausted does not fail the batch: the
\* batch goes on to return, with that signature mapped to absent.
C2_ExhaustedFetchIsAbsorbed ==
  /\ phase # "thrown"
  /\ \A k \in Fetches :
       (fetch[k].pc = "rejected" /\ phase = "returned")
         => MapHas(results, signatures[k])

\* C3: the fetches started and not yet settled never exceed the
\* concurrency limit.
C3_InFlightWithinLimit == Cardinality(InFlight) <= concurrencyLimit

\* C3 witness: a list longer than the limit, and a full wave in flight
C3_Witness ==
  /\ concurrencyLimit >= 2
  /\ Len(signatures) > concurrencyLimit
  /\ Cardinality(InFlight) = concurrencyLimit

\* C4: the operation is invoked at most maxRetries + 1 times; a success
\* returns the operation's value and ends the coroutine: no attempt follows.
C4_AttemptsBounded ==
  /\ [](\A k \in Fetches : fetch[k].calls <= maxRetries + 1)
  /\ [][\A k \in Fetches :
          /\ (fetch[k].pc = "op" /\ fetch'[k].pc = "resolved")
               => fetch'[k].value = Ledger(signatures[k])
          /\ fetch[k].pc = "resolved" => fetch'[k] = fetch[k]]_vars

\* C4 witness: the last allowed attempt is in flight
C4_Witness == \E k \in Fetches : fetch[k].pc = "op" /\ fetch[k].calls = maxRetries + 1

\* C5: every invocation of the operation has its own completed acquire
\* before it: acquires and invocations advance together, one for one.
C5_AcquireBeforeEachAttempt ==
  \A k \in Fetches :
    /\ fetch[k].acquires = fetch[k].calls
    /\ fetch[k].pc = "op" => fetch[k].calls = fetch[k].attempt + 1

\* C5 witness: a retry in flight that had to wait for its token
C5_Witness ==
  /\ limiter.initialized
  /\ \E k \in Fetches : fetch[k].pc = "op" /\ fetch[k].attempt >= 1
  /\ limiter.tokens < MsPerSecond

\* C6: when every attempt has failed, withRetry throws an error that names
\* the operation and carries the message of the last attempt's error, and
\* returns no value.
C6_ExhaustionThrowsLastError ==
  \A k \in Fetches :
    fetch[k].pc = "rejected" =>
      /\ fetch[k].thrown.name = OperationName(signatures[k])
      /\ fetch[k].thrown.message = RpcError(signatures[k], maxRetries)
      /\ fetch[k].value = Undefined

\* C6 witness: an exhausted fetch
C6_Witness == \E k \in Fetches : fetch[k].pc = "rejected"


(***************************************************************************)
(* Claims on the signature scan.                                           *)
(***************************************************************************)
\* an entry the window asks for: not errored, with a block time, and
\* start <= blockTime <= end
InWindow(sig) ==
  /\ ~sig.err
  /\ sig.blockTime # NoTime
  /\ startTimestamp <= sig.blockTime
  /\ sig.blockTime <= endTimestamp

WholeHistory == [n \in 1..Len(history) |-> Signed(history, n)]

\* C7: on a newest-first history the scan returns exactly the entries that
\* are not errored, have a block time and lie in [start, end], in history
\* order; the bounds of the window are inclusive.
C7_ScanReturnsWindow ==
  scanPc = "returned" => allSignatures = SelectSeq(WholeHistory, InWindow)

\* C7 witness: a returned scan of more than one page that kept entries at
\* blockTime = start and = end and left out start - 1 and end + 1
C7_Witness ==
  /\ scanPc = "returned"
  /\ Len(requests) >= 2
  /\ \E n \in 1..Len(allSignatures) : allSignatures[n].blockTime = startTimestamp
  /\ \E n \in 1..Len(allSignatures) : allSignatures[n].blockTime = endTimestamp
  /\ \E n \in 1..Len(history) : history[n].blockTime = startTimestamp - 1
  /\ \E n \in 1..Len(history) : history[n].blockTime = endTimestamp + 1


(***************************************************************************)
(* Claims on mergeSignatures.                                              *)
(***************************************************************************)
\* the first place of a signature among the records given
FirstAt(signature) ==
  CHOOSE n \in 1..Len(mergeInput) :
    /\ mergeInput[n].signature = signature
    /\ \A m \in 1..(n - 1) : mergeInput[m].signature # signature

InputSignatures == {mergeInput[n].signature : n \in 1..Len(mergeInput)}

\* C8: the merged list holds exactly the distinct signatures of the input,
\* each once, and for each the record of its first occurrence.
C8_MergeKeepsDistinctFirst ==
  mergePc = "returned" =>
    /\ {merged[n].signature : n \in 1..Len(merged)} = InputSignatures
    /\ Len(merged) = Cardinality(InputSignatures)
    /\ \A n \in 1..Len(merged) : merged[n] = mergeInput[FirstAt(merged[n].signature)]

\* C8 witness: a merge of several signatures, one of them given twice with
\* differing records
C8_Witness ==
  /\ mergePc = "returned"
  /\ Len(merged) >= 2
  /\ \E a, b \in 1..Len(mergeInput) :
       /\ a < b
       /\ mergeInput[a].signature = mergeInput[b].signature
       /\ mergeInput[a] # mergeInput[b]

\* C9: the merged list is in non-increasing blockTime order, a missing
\* blockTime counting as 0; records of equal blockTime stay in the order
\* of their first insertion.
C9_MergeSortedStable ==
  mergePc = "returned" =>
    \A a, b \in 1..Len(merged) :
      a < b =>
        /\ TimeOrZero(merged[a].blockTime) >= TimeOrZero(merged[b].blockTime)
        /\ TimeOrZero(merged[a].blockTime) = TimeOrZero(merged[b].blockTime)
             => FirstAt(merged[a].signature) < FirstAt(merged[b].signature)

\* C9 witness: a merge that had to reorder: a record without blockTime was
\* given before a dated one, and two records share a blockTime
C9_Witness ==
  /\ mergePc = "returned"
  /\ Len(merged) >= 3
  /\ mergeInput[1].blockTime = NoTime
  /\ merged[Len(merged)].blockTime = NoTime
  /\ \E a, b \in 1..Len(merged) : a < b /\ merged[a].blockTime = merged[b].blockTime


(***************************************************************************)
(* Claims on the classifier.                                               *)
(***************************************************************************)
KnownInstructionNames == {"CastVote", "CreateProposal"}

\* the first log line that names an instruction
FirstNamedLine ==
  LET named == {n \in 1..Len(tx.logMessages) : NamesInstruction(tx.logMessages[n])}
  IN tx.logMessages[CHOOSE n \in named : \A m \in named : n <= m]

\* a governance-program instruction, top-level or inner, whose
\* discriminator maps to another category than c
ConflictingDiscriminator(c) ==
  \E list \in {tx.instructions, tx.innerInstructions} :
    \E n \in 1..Len(list) :
      /\ list[n].programId = GOVERNANCE_PROGRAM_ID
      /\ list[n].data.kind = "string"
      /\ list[n].data.first \in MappedDiscriminators
      /\ stringToTransactionType(GOVERNANCE_INSTRUCTION_MAP(list[n].data.first)) # c

\* C10: when the logs name a known instruction and a governance-program
\* instruction's discriminator maps to another category, the classifier
\* returns the category of the log line (of the first one that names an
\* instruction, when there are several).
C10_LogTierWins ==
  (/\ classPc = "returned"
   /\ \E n \in 1..Len(tx.logMessages) : NamesInstruction(tx.logMessages[n])
   /\ FirstNamedLine.word \in KnownInstructionNames
   /\ ConflictingDiscriminator(mapLogInstructionToType(FirstNamedLine.word)))
    => txType = mapLogInstructionToType(FirstNamedLine.word)

\* C10 witness: a log line naming CastVote and a top-level governance
\* instruction with the discriminator of CreateProposal
C10_Witness ==
  /\ classPc = "returned"
  /\ Len(tx.logMessages) = 1
  /\ tx.logMessages[1].word = "CastVote"
  /\ Len(tx.instructions) = 1
  /\ tx.instructions[1].programId = GOVERNANCE_PROGRAM_ID
  /\ tx.instructions[1].data = StringData(6)
  /\ txType = VOTE

\* the instruction names mapLogInstructionToType has a case for
LogInstructionNames ==
  {"CastVote", "RelinquishVote", "CreateProposal", "SignOffProposal",
   "CancelProposal", "FinalizeVote", "CompleteProposal", "DepositGoverningTokens",
   "CreateTokenOwnerRecord", "WithdrawGoverningTokens", "SetGovernanceDelegate",
   "ExecuteTransaction", "AddSignatory", "RemoveSignatory", "InsertTransaction",
   "RemoveTransaction", "CreateRealm", "CreateGovernance", "CreateProgramGovernance",
   "CreateMintGovernance", "CreateTokenGovernance", "SetGovernanceConfig",
   "FlagTransactionError", "SetRealmAuthority", "SetRealmConfig",
   "UpdateProgramMetadata", "CreateNativeTreasury", "RevokeGoverningTokens",
   "RefundProposalDeposit"}

\* the keys the parsed-shape tests look for
ParsedShapeKeys ==
  {"vote", "castVote", "relinquishVote", "proposal", "createProposal",
   "cancelProposal", "signOffProposal", "finalizeVote", "completeProposal",
   "depositGoverningTokens", "createTokenOwnerRecord", "withdrawGoverningTokens",
   "setGovernanceDelegate", "executeTransaction", "addSignatory", "removeSignatory",
   "insertTransaction", "removeTransaction", "refundProposalDeposit", "createRealm",
   "createGovernance", "setGovernanceConfig", "setRealmAuthority", "setRealmConfig",
   "createNativeTreasury"}

\* all instructions of the transaction, top-level and inner
AllInstructions == tx.instructions \o tx.innerInstructions

Invokes(programId) ==
  \E n \in 1..Len(AllInstructions) : AllInstructions[n].programId = programId

\* a governance-program instruction whose payload has a first byte
CarriesDiscriminator(ix) ==
  /\ ix.programId = GOVERNANCE_PROGRAM_ID
  /\ ix.data.kind = "string"
  /\ ix.data.first # NoByte

\* the transaction names an instruction the tables do not know: in a log
\* line, or by the first byte of a governance instruction's payload
HasUnknownInstruction ==
  \/ \E n \in 1..Len(tx.logMessages) :
       NamesInstruction(tx.logMessages[n]) /\ tx.logMessages[n].word \notin LogInstructionNames
  \/ \E n \in 1..Len(AllInstructions) :
       CarriesDiscriminator(AllInstructions[n])
         /\ AllInstructions[n].data.first \notin MappedDiscriminators

\* nothing in the transaction names a known instruction or the chat program
HasNoKnownInstruction ==
  /\ \A n \in 1..Len(tx.logMessages) :
       /\ NamesInstruction(tx.logMessages[n]) => tx.logMessages[n].word \notin LogInstructionNames
       /\ ~InvokesChat(tx.logMessages[n])
  /\ ~Invokes(GOVERNANCE_CHAT_PROGRAM_ID)
  /\ \A n \in 1..Len(AllInstructions) :
       LET ix == AllInstructions[n]
       IN /\ CarriesDiscriminator(ix) => ix.data.first \notin MappedDiscriminators
          /\ (ix.programId = GOVERNANCE_PROGRAM_ID /\ ix.data.kind = "object")
               => ix.data.keys \cap ParsedShapeKeys = {}

\* C11: a transaction that invokes the governance program and names an
\* instruction the tables do not know is never rejected, and it is
\* classified as OtherGovernance when nothing else in it names a known
\* instruction or the chat program.
C11_UnknownIsOtherGovernance ==
  (classPc = "returned" /\ Invokes(GOVERNANCE_PROGRAM_ID) /\ HasUnknownInstruction)
    => /\ txType # NullType
       /\ HasNoKnownInstruction => txType = OTHER_GOVERNANCE

\* C11 witness: the only instruction is a governance instruction with the
\* unmapped discriminator 200, and no log line names an instruction
C11_Witness ==
  /\ classPc = "returned"
  /\ tx.logMessages = <<>>
  /\ tx.innerInstructions = <<>>
  /\ Len(tx.instructions) = 1
  /\ tx.instructions[1] = [programId |-> GOVERNANCE_PROGRAM_ID, data |-> StringData(200)]
  /\ txType = OTHER_GOVERNANCE

\* C12: a transaction in which no top-level and no inner instruction has
\* the governance or the chat program id is rejected, whatever its log
\* lines contain.
C12_NonGovernanceRejected ==
  (classPc = "returned"
     /\ ~Invokes(GOVERNANCE_PROGRAM_ID) /\ ~Invokes(GOVERNANCE_CHAT_PROGRAM_ID))
    => txType = NullType

(***************************************************************************)
(* Claims on parseTransaction and calculateRentCost.                       *)
(***************************************************************************)
WalletIsFirstKey ==
  Len(parseTx.accountKeys) > 0 /\ parseTx.accountKeys[1] = walletAddress

\* C13: parseTransaction returns no result for a transaction whose first
\* account key is not the tracked wallet, also when the wallet stands at a
\* later index and the transaction would classify.
C13_FeePayerGating ==
  (parsePc = "returned" /\ ~WalletIsFirstKey) => tracked = NoTracked

\* C13 witness: the wallet is the second account key of a transaction that
\* classifies as Vote, and nothing is returned
C13_Witness ==
  /\ parsePc = "returned"
  /\ Len(parseTx.accountKeys) = 2
  /\ parseTx.accountKeys[1] # walletAddress
  /\ parseTx.accountKeys[2] = walletAddress
  /\ determineTransactionType(parseTx.body) = VOTE
  /\ tracked = NoTracked

\* C14: calculateRentCost returns max(0, preBalance[idx] - postBalance[idx]
\* - fee) for the wallet's index idx among the account keys, 0 when the
\* wallet is not among them, and never a negative number.
C14_RentCostClamped ==
  (rentPc = "returned" /\ parseTx.hasMeta) =>
    /\ rentCost >= 0
    /\ (\A n \in 1..Len(parseTx.accountKeys) : parseTx.accountKeys[n] # walletAddress)
         => rentCost = 0
    /\ \A n \in 1..Len(parseTx.accountKeys) :
         (/\ parseTx.accountKeys[n] = walletAddress
          /\ \A m \in 1..(n - 1) : parseTx.accountKeys[m] # walletAddress)
           => LET delta == parseTx.preBalances[n] - parseTx.postBalances[n] - parseTx.fee
              IN (delta >= 0 => rentCost = delta) /\ (delta < 0 => rentCost = 0)

\* C14 witness: the wallet, second among the keys, lost less than the fee
C14_Witness ==
  /\ rentPc = "returned"
  /\ Len(parseTx.accountKeys) = 2
  /\ parseTx.accountKeys = <<"other", walletAddress>>
  /\ parseTx.preBalances[2] - parseTx.postBalances[2] = 1
  /\ parseTx.fee = 2
  /\ rentCost = 0

(***************************************************************************)
(* Claims on calculateResults.                                             *)
(***************************************************************************)
\* the summaries of the result, one per category
CategorySummaries ==
  <<trackingResults.votes, trackingResults.proposals, trackingResults.comments,
    trackingResults.tokenDeposits, trackingResults.tokenWithdrawals,
    trackingResults.delegates, trackingResults.executes, trackingResults.signatories,
    trackingResults.proposalInstructions, trackingResults.governanceAdmin,
    trackingResults.refunds, trackingResults.otherGovernance>>

RECURSIVE SumOver(_, _)
SumOver(f, S) ==
  IF S = {} THEN 0
  ELSE LET x == CHOOSE y \in S : TRUE IN f[x] + SumOver(f, S \ {x})

\* C15: the counts of all category summaries add up to totalCount, and
\* their totalFees add up to the grand totalFees.
C15_SummariesAddUp ==
  resultsPc = "returned" =>
    /\ SumOver([n \in 1..12 |-> CategorySummaries[n].count], 1..12)
         = trackingResults.totalCount
    /\ SumOver([n \in 1..12 |-> CategorySummaries[n].totalFees], 1..12)
         = trackingResults.totalFees
    /\ trackingResults.totalCount = Len(transactions)

\* C15 witness: three transactions of three categories, the last category
\* of the enumeration among them
C15_Witness ==
  /\ resultsPc = "returned"
  /\ Len(transactions) = 3
  /\ {transactions[n].transactionType : n \in 1..3} = {VOTE, REFUND, OTHER_GOVERNANCE}
  /\ trackingResults.totalCount = 3
  /\ trackingResults.otherGovernance.count = 1

\* the summary of a category in the result
SummaryOf(c) ==
  CASE c = VOTE -> trackingResults.votes
    [] c = PROPOSAL -> trackingResults.proposals
    [] c = COMMENT -> trackingResults.comments
    [] c = TOKEN_DEPOSIT -> trackingResults.tokenDeposits
    [] c = TOKEN_WITHDRAWAL -> trackingResults.tokenWithdrawals
    [] c = DELEGATE -> trackingResults.delegates
    [] c = EXECUTE -> trackingResults.executes
    [] c = SIGNATORY -> trackingResults.signatories
    [] c = PROPOSAL_INSTRUCTION -> trackingResults.proposalInstructions
    [] c = GOVERNANCE_ADMIN -> trackingResults.governanceAdmin
    [] c = REFUND -> trackingResults.refunds
    [] c = OTHER_GOVERNANCE -> trackingResults.otherGovernance

\* the positions of the transactions of category c
OfCategory(c) == {n \in 1..Len(transactions) : transactions[n].transactionType = c}

\* C16: for every category c the summary's count is the number of
\* transactions of category c and its totalFees the sum of their fee +
\* rent; two Votes (5000, 0) and one Proposal (7000, 2000) give
\* votes = {2, 10000}, proposals = {1, 9000}, totalCount 3, totalFees 19000.
C16_SummaryPerCategory ==
  resultsPc = "returned" =>
    /\ \A c \in TransactionTypes :
         /\ SummaryOf(c).count = Cardinality(OfCategory(c))
         /\ SummaryOf(c).totalFees
              = SumOver([n \in 1..Len(transactions) |->
                          transactions[n].transactionFee + transactions[n].rentCost],
                        OfCategory(c))
    /\ transactions = <<Tracked(VOTE, 5000, 0), Tracked(VOTE, 5000, 0),
                        Tracked(PROPOSAL, 7000, 2000)>>
         => /\ trackingResults.votes = [count |-> 2, totalFees |-> 10000]
            /\ trackingResults.proposals = [count |-> 1, totalFees |-> 9000]
            /\ trackingResults.totalCount = 3
            /\ trackingResults.totalFees = 19000

\* C16 witness: the example of the claim
C16_Witness ==
  /\ resultsPc = "returned"
  /\ transactions = <<Tracked(VOTE, 5000, 0), Tracked(VOTE, 5000, 0),
                      Tracked(PROPOSAL, 7000, 2000)>>
  /\ trackingResults.votes = [count |-> 2, totalFees |-> 10000]
  /\ trackingResults.proposals = [count |-> 1, totalFees |-> 9000]
  /\ trackingResults.totalFees = 19000

(***************************************************************************)
(* Claims on the run.                                                      *)
(***************************************************************************)
\* C17: every call on the RPC transport made during a run is made from
\* inside withRetry.
C17_AllCallsThroughRetry ==
  \A n \in 1..Len(rpcCalls) : rpcCalls[n].viaRetry

SignaturesOf(list) == {list[n].signature : n \in 1..Len(list)}

\* C18: when the membership record does not exist, the run makes no
\* signature query for it and no vote-record query, and the merged
\* signatures are the wallet's, each once, newest first.
C18_WalletOnlyWithoutMembership ==
  ~torExists =>
    /\ \A n \in 1..Len(rpcCalls) :
         /\ rpcCalls[n].method # "getProgramAccounts"
         /\ rpcCalls[n].method = "getSignaturesForAddress"
              => rpcCalls[n].target = WalletAddress
    /\ mainPc = "merged" =>
         /\ SignaturesOf(runSignatures) = SignaturesOf(walletSignatures)
         /\ \A n \in 1..Len(runSignatures) :
              \E m \in 1..Len(walletSignatures) : runSignatures[n] = walletSignatures[m]
         /\ \A n, m \in 1..Len(runSignatures) :
              /\ n # m => runSignatures[n].signature # runSignatures[m].signature
              /\ n < m => runSignatures[n].blockTime >= runSignatures[m].blockTime

\* C18 witness: the membership record does not exist and the merge returns
\* the two signatures of the wallet
C18_Witness ==
  /\ mainPc = "merged"
  /\ ~torExists
  /\ Len(walletSignatures) = 2
  /\ runSignatures = walletSignatures
  /\ Len(rpcCalls) = 4

\* C19: when the retries of a signature query are exhausted for one source
\* address, the run does not abort.
C19_ExhaustionDoesNotAbort ==
  exitReason \notin {"tokenOwnerRecord signatures", "wallet signatures"}

(***************************************************************************)
(* Claims on the limiter that was never initialized.                       *)
(***************************************************************************)
\* C20: on a limiter that was never initialized, throttle() returns
\* without waiting and leaves the token count and the last-refill time as
\* they were, however many calls are made.
C20_UninitializedThrottleIsNoOp ==
  /\ [](~limiter.initialized => Sleepers = {})
  /\ [][(~limiter.initialized /\ ~limiter'.initialized) => limiter' = limiter]_vars

\* C20 witness: a second attempt, made after its backoff, has passed
\* throttle() on the limiter that was never initialized
C20_Witness ==
  /\ ~limiter.initialized
  /\ now > 0
  /\ \E k \in Fetches : fetch[k].pc = "op" /\ fetch[k].acquires >= 2
  /\ limiter = NewRateLimiter(0)

(***************************************************************************)
(* Claims on the limiter's capacity, the batch and the backoff.            *)
(***************************************************************************)
\* C21: on an initialized limiter the token count is at most the capacity
\* rps, however long the limiter was idle between refills, and right after
\* init(rps) the count is rps.
C21_TokensWithinCapacity ==
  limiter.initialized =>
    /\ limiter.maxTokens = limiter.refillRate * MsPerSecond
    /\ limiter.tokens <= limiter.maxTokens
    /\ phase = "connected" => limiter.tokens = limiter.maxTokens

\* C21 witness: the only fetch starts its third attempt after a backoff of
\* two seconds on a bucket of one token: the refill of that throttle() is
\* capped, and the debit leaves the bucket empty
C21_Witness ==
  /\ limiter.initialized
  /\ Len(signatures) = 1
  /\ fetch[1].pc = "op"
  /\ fetch[1].attempt = 2
  /\ limiter.lastRefill = now
  /\ limiter.tokens = limiter.maxTokens - MsPerSecond

\* C23: when fetchTransactionsBatch returns, its map has exactly one entry
\* for each distinct input signature and no other key, and a signature the
\* ledger holds no transaction for is mapped to null.
C23_OneEntryPerSignature ==
  phase = "returned" =>
    LET given == {signatures[k] : k \in 1..Len(signatures)}
    IN /\ {results[n][1] : n \in 1..Len(results)} = given
       /\ Len(results) = Cardinality(given)
       /\ \A n \in 1..Len(results) : results[n][2] = Ledger(results[n][1])

\* C23 witness: the batch <<s1, s2, s1>> has returned: s1 is given twice,
\* and the ledger holds no transaction for s2
C23_Witness ==
  /\ phase = "returned"
  /\ signatures = <<"s1", "s2", "s1">>
  /\ Len(results) = 2
  /\ results[2] = <<"s2", Null>>

\* the wave of the k-th signature: waves are consecutive slices of
\* concurrencyLimit signatures
WaveOf(k) == (k - 1) \div concurrencyLimit
HasStarted(k) == fetch[k].pc # "pending"

\* C25: no fetch of a wave starts before every fetch of the wave before it
\* has settled; the waves are the consecutive slices of concurrencyLimit
\* signatures, each started as a whole, in input order.
C25_WavesInOrder ==
  \A k \in Fetches :
    HasStarted(k) =>
      /\ \A j \in Fetches :
           /\ WaveOf(j) < WaveOf(k) => fetch[j].pc = "resolved"
           /\ WaveOf(j) = WaveOf(k) => HasStarted(j)
      /\ phase = "running" =>
           /\ i % concurrencyLimit = 0
           /\ WaveOf(k) <= i \div concurrencyLimit

\* C25 witness: three signatures in waves of two; the first wave has
\* settled and the second, shorter, wave is in flight
C25_Witness ==
  /\ phase = "running"
  /\ concurrencyLimit = 2
  /\ Len(signatures) = 3
  /\ i = 2
  /\ fetch[1].pc = "resolved"
  /\ fetch[2].pc = "resolved"
  /\ fetch[3].pc = "op"

\* the delay the retry loop has slept last, once "failed" attempts have
\* failed: none before the first failure, and the failure of the last attempt
\* adds none
LastDelay(failed) ==
  IF failed = 0 THEN 0
  ELSE Min(baseDelayMs * Pow2(Min(failed, maxRetries) - 1), maxDelayMs)

\* C26: the delay slept after the failed attempt k, counted from 0, is
\* min(baseDelayMs * 2^k, maxDelayMs): the delays never decrease and never
\* exceed maxDelayMs; nothing is slept before the first attempt, and nothing
\* after the last failed attempt.
C26_BackoffDelays ==
  /\ \A k \in Fetches :
       IF fetch[k].pc = "backoff"
       THEN /\ fetch[k].attempt < maxRetries
            /\ fetch[k].delay = Min(baseDelayMs * Pow2(fetch[k].attempt), maxDelayMs)
            /\ fetch[k].wakeAt <= now + fetch[k].delay
       ELSE fetch[k].delay = LastDelay(fetch[k].attempt)
  /\ \A a \in 0..MaxAttempt :
       /\ calculateBackoff(a) = Min(baseDelayMs * Pow2(a), maxDelayMs)
       /\ calculateBackoff(a) <= maxDelayMs
       /\ calculateBackoff(a) <= calculateBackoff(a + 1)

\* C26 witness: the last attempt of a callback is in flight after three
\* failures; the delays were 1000, 2000 and 4000 ms
C26_Witness ==
  /\ Len(signatures) = 1
  /\ fetch[1].pc = "op"
  /\ fetch[1].attempt = maxRetries
  /\ fetch[1].delay = 4000
  /\ now >= 7000

(***************************************************************************)
(* The event loop is fair: the clock advances while no timer is due, and a *)
(* timer that is due and next in line fires (setTimeout).                  *)
(***************************************************************************)
TimersFire ==
  /\ WF_vars(Tick)
  /\ WF_vars(\E k \in 1..MaxWaiters : ThrottleWake(k))

\* the runs in which the callbacks of the batch all start at once, one wave
\* of n signatures, and every RPC answers: the callers of throttle() then
\* wait on nothing but the limiter
NextFair ==
  \/ \E rps \in RpsArgs : GetConnection(rps)
  \/ \E n \in 1..MaxWaiters : FetchTransactionsBatch([k \in 1..n |-> SigName(k)], n)
  \/ \E k \in 1..MaxWaiters : ThrottleWake(k)
  \/ \E k \in 1..MaxWaiters : OpSucceed(k)
  \/ Tick

SpecFair == Init /\ [][NextFair]_vars /\ TimersFire

\* the k-th callback is suspended in throttle(), on "await this.sleep(waitTime)"
InThrottle(k) == k \in DOMAIN fetch /\ fetch[k].pc = "throttle"

\* C24: every throttle() on an initialized limiter returns, also when
\* several callers wait at once: the wait it sleeps is bounded by the rate
\* and the number of callers, and once the clock has reached the end of the
\* wait the caller resumes.  (The clock of the model stops at MaxTime: the
\* second conjunct speaks of the waits that end by then.)
C24_ThrottleReturns ==
  /\ [](\A k \in Fetches :
          InThrottle(k) =>
            /\ limiter.initialized /\ limiter.refillRate >= 1
            /\ fetch[k].wakeAt - now <= Len(signatures) * MsPerSecond)
  /\ \A k \in 1..MaxWaiters :
       (InThrottle(k) /\ fetch[k].wakeAt <= MaxTime) ~> ~InThrottle(k)

\* C24 witness: the first of three callers has its token and its RPC has
\* answered; the second has waited and returned from throttle(), and the
\* third, which waited with it, is the next to return
C24_Witness ==
  /\ Len(signatures) = 3
  /\ limiter.initialized
  /\ fetch[1].pc = "resolved"
  /\ fetch[2].pc = "op"
  /\ InThrottle(3)
  /\ fetch[3].wakeAt = now

(***************************************************************************)
(* Claims on the pages of the signature scan.                              *)
(***************************************************************************)
\* the page requests that were answered: all of them, but for the last one
\* of a scan that has thrown
Answered == 1..(IF scanPc = "thrown" THEN Len(requests) - 1 ELSE Len(requests))

\* the page the r-th request was answered with
PageOf(r) == getSignaturesForAddress(history, requests[r], PageLimit)

\* the entry is older than the window
IsOlder(sig) == sig.blockTime # NoTime /\ sig.blockTime < startTimestamp

\* the block times of the history are Unix times: none is 0
UnixTimes == \A n \in 1..Len(history) : history[n].blockTime # 0

\* C27: a further page is requested if and only if the page before it was
\* full (PageLimit entries) and held no entry with blockTime < start; once
\* such an entry has been seen nothing behind it is added, on its page or on
\* a later one.  For histories whose block times are Unix times: the code
\* takes a blockTime of 0 for a missing one.
C27_FurtherPageIffFullAndNotOlder ==
  UnixTimes =>
    \A r \in Answered :
      LET page == PageOf(r)
          older == {n \in 1..Len(page) : IsOlder(page[n])}
      IN /\ (r < Len(requests) \/ scanPc = "loop")
              <=> (Len(page) = PageLimit /\ older = {})
         /\ \A n \in older :
              \A a \in 1..Len(allSignatures) :
                allSignatures[a].signature < page[n].signature

\* C27 witness: the first page was full and in the window, the second page
\* is full too but begins with an entry older than start and goes on with
\* entries that have no block time; the scan has returned after it
C27_Witness ==
  /\ UnixTimes
  /\ scanPc = "returned"
  /\ Len(requests) = 2
  /\ Len(allSignatures) = PageLimit
  /\ Len(PageOf(2)) = PageLimit
  /\ IsOlder(PageOf(2)[1])
  /\ PageOf(2)[PageLimit].blockTime = NoTime

\* an entry the scan passes over without stopping: newer than the window,
\* without a block time, or errored
IsSkipped(sig) ==
  \/ sig.blockTime = NoTime
  \/ sig.blockTime > endTimestamp
  \/ sig.err

Collected(signature) ==
  \E a \in 1..Len(allSignatures) : allSignatures[a].signature = signature

\* C28: an entry that is newer than end, has no blockTime or is errored
\* never ends the scan: the entries of the window that come after it, on
\* its page or on a later one, are collected all the same.
C28_SkippedEntriesDoNotEndScan ==
  scanPc = "returned" =>
    \A n \in 1..Len(history) :
      IsSkipped(WholeHistory[n]) =>
        \A m \in (n + 1)..Len(history) :
          InWindow(WholeHistory[m]) => Collected(m)

\* C28 witness: the first page holds an entry newer than end and an entry
\* without a block time, the second page begins with an errored entry, and
\* the entry of the window behind the three has been collected
C28_Witness ==
  /\ scanPc = "returned"
  /\ Len(history) = 4
  /\ history[1].blockTime > endTimestamp
  /\ history[2].blockTime = NoTime
  /\ history[3].err /\ history[3].blockTime = endTimestamp
  /\ allSignatures = <<WholeHistory[4]>>

\* C29: the first page request carries no cursor (0 here); every later one
\* carries the last signature of the page before it, kept or not; no two
\* requests carry the same cursor.
C29_CursorIsLastOfPreviousPage ==
  /\ requests # <<>> => requests[1] = 0
  /\ \A r \in Answered :
       r < Len(requests) =>
         requests[r + 1] = PageOf(r)[Len(PageOf(r))].signature
  /\ \A r, q \in 1..Len(requests) : r # q => requests[r] # requests[q]

\* C29 witness: two pages were requested; the last entry of the first page
\* was skipped and is the cursor of the second request all the same
C29_Witness ==
  /\ Len(requests) = 2
  /\ scanPc = "returned"
  /\ requests[2] = PageLimit
  /\ history[PageLimit].blockTime = NoTime
  /\ ~Collected(PageLimit)
  /\ Collected(1)

(***************************************************************************)
(* Claims on what the classifier rejects.                                  *)
(***************************************************************************)
\* C30: the classifier rejects a transaction only if neither the governance
\* program nor the chat program is invoked at any level: a transaction with
\* a top-level or inner governance instruction is classified, whatever the
\* payload of that instruction is.
C30_RejectsOnlyUninvoked ==
  (classPc = "returned" /\ txType = NullType)
    => /\ ~Invokes(GOVERNANCE_PROGRAM_ID)
       /\ ~Invokes(GOVERNANCE_CHAT_PROGRAM_ID)

(***************************************************************************)
(* Claims on the order of the list given to the aggregator.                *)
(***************************************************************************)
\* the place of a signature in the merged list
MergedAt(signature) ==
  CHOOSE n \in 1..Len(mergedSignatures) : mergedSignatures[n].signature = signature

\* C22: the list of tracked transactions given to calculateResults is in
\* non-increasing blockTime order, the order of the merged signature list:
\* the Map of the batch and the parsing loop keep the entries in the order
\* the merged list has them, each with the blockTime it has there.
C22_TrackedInMergedOrder ==
  /\ \A a \in 1..Len(trackedTransactions) :
       trackedTransactions[a].blockTime
         = mergedSignatures[MergedAt(trackedTransactions[a].signature)].blockTime
  /\ \A a, b \in 1..Len(trackedTransactions) :
       a < b =>
         /\ trackedTransactions[a].blockTime >= trackedTransactions[b].blockTime
         /\ MergedAt(trackedTransactions[a].signature)
              < MergedAt(trackedTransactions[b].signature)

\* C22 witness: of three merged signatures the second was not tracked; the
\* first and the third go to calculateResults, the newer first, although
\* the transaction of the third carries a later blockTime of its own
C22_Witness ==
  /\ reportPc = "calculateResults"
  /\ Len(mergedSignatures) = 3
  /\ Len(trackedTransactions) = 2
  /\ trackedTransactions[1].signature = mergedSignatures[1].signature
  /\ trackedTransactions[2].signature = mergedSignatures[3].signature
  /\ trackedTransactions[1].blockTime > trackedTransactions[2].blockTime
  /\ details[3][2].blockTime = MaxBlockTime

(***************************************************************************)
(* Claims on the tables of the tiers.                                      *)
(***************************************************************************)
\* the category the fixed table gives the discriminator d
TableCategory(d) ==
  IF d \in 0..28 THEN stringToTransactionType(GOVERNANCE_INSTRUCTION_MAP(d))
  ELSE OTHER_GOVERNANCE

\* C31: without a classifying log line, a governance instruction whose
\* payload begins with the byte d is classified by the fixed table for d in
\* 0..28 (13 and 15 Vote, 6, 11, 12, 14 and 28 Proposal, 1 and 23 Token
\* Deposit, 27 Refund) and as Other Governance for d >= 29; a chat
\* instruction is classified as Comment.
C31_ClassifiedByFirstByte ==
  ixPc = "classified" =>
    LET d == ixPayload[1]
    IN /\ ixProgram = GOVERNANCE_CHAT_PROGRAM_ID => ixType = COMMENT
       /\ ixProgram = GOVERNANCE_PROGRAM_ID =>
            /\ ixType = TableCategory(d)
            /\ d \in {13, 15} => ixType = VOTE
            /\ d \in {6, 11, 12, 14, 28} => ixType = PROPOSAL
            /\ d \in {1, 23} => ixType = TOKEN_DEPOSIT
            /\ d = 27 => ixType = REFUND
            /\ d >= 29 => ixType = OTHER_GOVERNANCE

\* C37: for each of the 29 known governance instructions the log tier on
\* the instruction's name and the discriminator tier on its index return
\* the same category.
C37_LogAndTableAgree ==
  ixPc = "tiers" =>
    /\ ixLogType = ixTableType
    /\ ixLogType \in TransactionTypes \ {COMMENT, OTHER_GOVERNANCE}

\* C37 witness: FinalizeVote, index 14, is a Proposal by its name and by
\* its index
C37_Witness ==
  /\ ixPc = "tiers"
  /\ ixPayload[1] = 14
  /\ ixLogType = PROPOSAL
  /\ ixTableType = PROPOSAL

\* C38: for each of the 29 known governance instructions the parsed-shape
\* tier on an object keyed by the instruction's camelCase name returns the
\* category the log tier and the discriminator tier return.
C38_ShapeAgreesWithLogAndTable ==
  ixPc = "tiers" =>
    /\ ixShapeType = ixLogType
    /\ ixShapeType = ixTableType

(***************************************************************************)
(* Claims on the inner instructions.                                       *)
(***************************************************************************)
GovernanceAt(instructions) ==
  {n \in 1..Len(instructions) : instructions[n].programId = GOVERNANCE_PROGRAM_ID}

\* the logs classify nothing, and the one instruction of the governance or
\* the chat program is an inner instruction of the governance program
OnlyInnerGovernance ==
  /\ getInstructionTypeFromLogs(tx.logMessages) = NullType
  /\ GovernanceAt(tx.instructions) = {}
  /\ Cardinality(GovernanceAt(tx.innerInstructions)) = 1
  /\ ~Invokes(GOVERNANCE_CHAT_PROGRAM_ID)

\* the transaction with that inner instruction made a top-level one
Promoted ==
  LET n == CHOOSE n \in GovernanceAt(tx.innerInstructions) : TRUE
  IN [tx EXCEPT !.instructions = Append(@, tx.innerInstructions[n]),
                !.innerInstructions =
                  SubSeq(@, 1, n - 1) \o SubSeq(@, n + 1, Len(@))]

\* the logs or a top-level instruction classify the transaction
ClassifiedBeforeInner ==
  determineTransactionType([tx EXCEPT !.innerInstructions = <<>>]) # NullType

\* C32: the inner instructions are consulted only when the log tier and
\* every top-level instruction gave nothing; then a governance inner
\* instruction is classified as a top-level one would be: the transaction
\* whose only governance instruction is an inner one gets the category it
\* would get with that instruction at top level.
C32_InnerAsTopLevel ==
  classPc = "returned" =>
    /\ ClassifiedBeforeInner =>
         txType = determineTransactionType([tx EXCEPT !.innerInstructions = <<>>])
    /\ OnlyInnerGovernance => txType = determineTransactionType(Promoted)

\* C32 witness: a top-level instruction of another program, and an inner
\* governance instruction with the parsed object {castVote}: a Vote
C32_Witness ==
  /\ classPc = "returned"
  /\ OnlyInnerGovernance
  /\ Len(tx.instructions) = 1
  /\ tx.instructions[1].programId = OTHER_PROGRAM_ID
  /\ tx.innerInstructions
       = <<[programId |-> GOVERNANCE_PROGRAM_ID, data |-> ObjectData({"castVote"})]>>
  /\ txType = VOTE

(***************************************************************************)
(* Claims on the order within the log tier.                                *)
(***************************************************************************)
NamedLines ==
  {n \in 1..Len(tx.logMessages) : NamesInstruction(tx.logMessages[n])}
ChatLines ==
  {n \in 1..Len(tx.logMessages) : InvokesChat(tx.logMessages[n])}

\* C40: in the log tier a GOVERNANCE-INSTRUCTION line goes before a chat
\* invoke line wherever the two stand in the log, and of several
\* GOVERNANCE-INSTRUCTION lines the first decides; the log tier returns
\* Comment only when no GOVERNANCE-INSTRUCTION line names an instruction.
C40_NamedLineBeforeChatLine ==
  classPc = "returned" =>
    /\ NamedLines # {} =>
         /\ txType = mapLogInstructionToType(FirstNamedLine.word)
         /\ txType # COMMENT
    /\ (NamedLines = {} /\ ChatLines # {}) => txType = COMMENT

\* C40 witness: a chat invoke line, then a line naming CreateProposal, then
\* a line naming CastVote: a Proposal
C40_Witness ==
  /\ classPc = "returned"
  /\ Len(tx.logMessages) = 3
  /\ InvokesChat(tx.logMessages[1])
  /\ tx.logMessages[2].word = "CreateProposal"
  /\ tx.logMessages[3].word = "CastVote"
  /\ txType = PROPOSAL

(***************************************************************************)
(* Claims on the algebra of mergeSignatures.                               *)
(***************************************************************************)
SignatureSet(list) == {list[n].signature : n \in 1..Len(list)}

\* C35: mergeSignatures is idempotent, and the set of its signatures does
\* not depend on the order of its inputs: merging the merged list again
\* returns it unchanged, and giving the three lists in any other order
\* returns the same signatures.
C35_MergeIdempotentOrderFree ==
  mainPc = "merged" =>
    LET a == torSignatures
        b == voteRecordSignatures
        c == walletSignatures
    IN /\ mergeSignatures(runSignatures, <<>>, <<>>) = runSignatures
       /\ \A other \in {mergeSignatures(a, c, b), mergeSignatures(b, a, c),
                        mergeSignatures(b, c, a), mergeSignatures(c, a, b),
                        mergeSignatures(c, b, a)} :
            SignatureSet(other) = SignatureSet(runSignatures)

\* C35 witness: a merge of lists that share a signature, whose result holds
\* two records of one blockTime and differs as a list, not as a set of
\* signatures, when the lists are given the other way round
C35_Witness ==
  /\ mainPc = "merged"
  /\ SignatureSet(torSignatures) \cap SignatureSet(walletSignatures) # {}
  /\ \E n \in 1..(Len(runSignatures) - 1) :
       runSignatures[n].blockTime = runSignatures[n + 1].blockTime
  /\ mergeSignatures(walletSignatures, voteRecordSignatures, torSignatures)
       # runSignatures

(***************************************************************************)
(* Claims on the calls the run makes on the connection.                    *)
(***************************************************************************)
\* C33: every RPC call of every stage (the connectivity probe, the realm
\* lookup, the membership-record check, the vote-record query, the
\* signature pages) is made only after the caller has completed an acquire
\* on the limiter for that call.
C33_EveryCallAfterAcquire ==
  \A n \in 1..Len(rpcCalls) : rpcCalls[n].acquires >= 1

\* C39: every RPC call attempted through the limiter debits exactly one
\* token, so that the tokens debited are as many as those calls, the
\* signature lookups of the vote records included.
C39_OneTokenForEachCall ==
  \A n \in 1..Len(rpcCalls) : rpcCalls[n].acquires >= 1 => rpcCalls[n].acquires = 1

Warned(address) == \E n \in 1..Len(warnings) : warnings[n] = address

\* C34: every non-errored signature of the window in the history of a vote
\* record linked to the membership record is in the merged list, also when
\* the most recent signature of that vote record is outside the window
\* (stated for the vote records whose lookups did not fail).
C34_WindowSignaturesMerged ==
  mainPc = "merged" =>
    \A n \in 1..Len(vrHistory) :
      ~Warned(VoteRecordName(n)) =>
        SignatureSet(vrHistory[n]) \subseteq SignatureSet(runSignatures)

(***************************************************************************)
(* Claims on the list main hands to the aggregator.                        *)
(***************************************************************************)
\* C36: in the final result every signature appears in at most one
\* classified transaction, and each classified transaction has exactly one
\* category, one of the twelve, whatever duplicates the three sources
\* returned.
C36_OneEntryOneCategory ==
  /\ \A a, b \in 1..Len(trackedTransactions) :
       trackedTransactions[a].signature = trackedTransactions[b].signature => a = b
  /\ \A a \in 1..Len(trackedTransactions) :
       /\ trackedTransactions[a].transactionType \in TransactionTypes
       /\ \E n \in 1..Len(mergedSignatures) :
            mergedSignatures[n].signature = trackedTransactions[a].signature

\* C36 witness: the sources returned "sa" and "sb" twice each; each of the
\* three signatures goes to calculateResults once, and a transaction with no
\* type was left out
C36_Witness ==
  /\ reportPc = "calculateResults"
  /\ mergedSignatures =
       mergeSignatures(<<SigInfo("sa", 2), SigInfo("sb", 1)>>, <<SigInfo("sa", 2)>>,
                       <<SigInfo("sc", 2), SigInfo("sb", 1)>>)
  /\ Len(trackedTransactions) = 2
  /\ \E n \in 1..Len(details) : details[n][2].present /\ details[n][2].type = NullType

=============================================================================
